---- MODULE Spec2Model ----
(***************************************************************************)
(* A model of the dsangels-backend AI engine: the content generator with   *)
(* its result cache and curated store (ai_engine/content_generator.py,     *)
(* ai_engine/utils.py, ai_engine/adapter.py), the difficulty adjuster      *)
(* (ai_engine/difficulty_adjuster.py) and the recommendation engine        *)
(* (ai_engine/recommendation.py) over the tables of core/models.py.        *)
(*                                                                         *)
(* Texts are sequences of tokens: words, and the separators " ", "\n",     *)
(* ":", "{", "}", "," and the double quote, each a token of its own.       *)
(* An optional value (Python's Optional[...]) is a sequence of length 0    *)
(* (None) or 1.                                                            *)
(***************************************************************************)
EXTENDS Integers, Sequences, FiniteSets, TLC

----------------------------------------------------------------------------
(* Bounds of the model *)

\* content ids of the catalog are 1..NContent
NContent == 3
\* the hardest difficulty_base of the catalog's content
MaxDifficulty == 4
\* at most this many UserProgress rows exist
MaxRecords == 2
\* at most this many entries are appended to explanations.json
MaxCurated == 2
\* the request threads that call get_current_adapter concurrently
NThreads == 2
\* each thread calls get_current_adapter at most this often
MaxCalls == 2
\* the categories lists passed to classify_content have at most this length
MaxCategories == 2
\* the forum and the mentor connections hold at most this many rows each
MaxRows == 2

(* Program constants *)

\* recommendation.py: completion_percentage__gte=80
RecCompletedPct == 80
\* recommendation.py: When(id__in=viewed_content_ids, then=10)
InProgressBonus == 10
\* recommendation.py: When(difficulty_base__lte=3, then=5), default=1
RelevanceCutoff == 3
RelevanceHigh == 5
RelevanceLow == 1
\* difficulty_adjuster.py: completion_percentage__gte=75 and __gte=90
CompletedPct == 75
HighPct == 90
\* difficulty_adjuster.py: return 1 and max(1, min(5, ...))
MinLevel == 1
MaxLevel == 5
\* the percentage at which TrackCompletionView.post marks a record completed
FullPct == 100
\* the base points of a completed content and the default of Challenge.points
BasePoints == 50
ChallengePoints == 10

----------------------------------------------------------------------------
(* Python values *)

\* None where a str is expected (age_group: Optional[str])
PyNone == "<None>"
\* str(x) inside an f-string
Fmt(x) == IF x = PyNone THEN "None" ELSE x
\* an Optional value
None == <<>>
Some(x) == <<x>>
\* bool(x) of an Optional[str]: None and "" are false
Truthy(opt) == opt # None /\ opt[1] # <<>>

Min(a, b) == IF a <= b THEN a ELSE b
Max(a, b) == IF a <= b THEN b ELSE a

----------------------------------------------------------------------------
(* Texts and the two parsers applied to generated text *)

IsWs(t) == t \in {" ", "\n"}
\* the character class [:\s]
IsSep(t) == t \in {":", " ", "\n"}

RECURSIVE SkipWhile(_, _, _)
\* the first index >= i of s whose token is not in class, Len(s)+1 if none
SkipWhile(s, i, class) ==
    IF i <= Len(s) /\ s[i] \in class THEN SkipWhile(s, i + 1, class) ELSE i

RECURSIVE FindToken(_, _, _)
\* the first index >= i of s whose token is in class, Len(s)+1 if none
FindToken(s, i, class) ==
    IF i <= Len(s) /\ s[i] \notin class THEN FindToken(s, i + 1, class) ELSE i

RECURSIVE RSkipWs(_, _)
RSkipWs(s, j) == IF j >= 1 /\ IsWs(s[j]) THEN RSkipWs(s, j - 1) ELSE j

\* str.strip()
Strip(s) ==
    LET i == SkipWhile(s, 1, {" ", "\n"})
        j == RSkipWs(s, Len(s))
    IN  IF i > j THEN <<>> ELSE SubSeq(s, i, j)

\* re.search(label + r"[:\s]+(.*)", s [, re.DOTALL]): the captured group of
\* the leftmost match, None when there is no match. The label is matched
\* case-sensitively as a whole word; (.*) stops before a newline unless dotall.
ReSearchLabel(label, s, dotall) ==
    LET starts == {i \in 1..(Len(s) - 1) : s[i] = label /\ IsSep(s[i + 1])}
    IN  IF starts = {} THEN None
        ELSE LET i == CHOOSE a \in starts : \A b \in starts : a <= b
                 k == SkipWhile(s, i + 1, {":", " ", "\n"})
                 e == IF dotall THEN Len(s) + 1 ELSE FindToken(s, k, {"\n"})
             IN  Some(SubSeq(s, k, e - 1))

Quote == "\""

RECURSIVE JsonMembers(_, _, _)
\* the members of a flat JSON object with string values, read from index i of
\* s (just after "{" or ","): a sequence of <<key, value>> pairs, or
\* <<"error">> when the text is not such an object.
JsonMembers(s, i, acc) ==
    LET k1 == SkipWhile(s, i, {" ", "\n"})
        k2 == FindToken(s, k1 + 1, {Quote})
        c  == SkipWhile(s, k2 + 1, {" ", "\n"})
        v1 == SkipWhile(s, c + 1, {" ", "\n"})
        v2 == FindToken(s, v1 + 1, {Quote})
        n  == SkipWhile(s, v2 + 1, {" ", "\n"})
    IN  IF k1 > Len(s) \/ s[k1] # Quote \/ k2 > Len(s) THEN <<"error">>
        ELSE IF c > Len(s) \/ s[c] # ":" THEN <<"error">>
        ELSE IF v1 > Len(s) \/ s[v1] # Quote \/ v2 > Len(s) THEN <<"error">>
        ELSE IF n > Len(s) THEN <<"error">>
        ELSE LET pair == <<SubSeq(s, k1 + 1, k2 - 1), SubSeq(s, v1 + 1, v2 - 1)>>
             IN  IF s[n] = "," THEN JsonMembers(s, n + 1, Append(acc, pair))
                 ELSE IF s[n] = "}" /\ n = Len(s) THEN Append(acc, pair)
                 ELSE <<"error">>

\* json.loads(s): [kind |-> "object", members |-> pairs] for an object,
\* [kind |-> "string"] for a JSON string (a value without .get), and
\* [kind |-> "error"] for json.JSONDecodeError.
JsonLoads(text) ==
    LET s == Strip(text)
    IN  IF s = <<>> THEN [kind |-> "error"]
        ELSE IF s[1] = "{"
        THEN IF s = <<"{", "}">> THEN [kind |-> "object", members |-> <<>>]
             ELSE LET m == JsonMembers(s, 2, <<>>)
                  IN  IF m # <<>> /\ m[Len(m)] = "error" THEN [kind |-> "error"]
                      ELSE [kind |-> "object", members |-> m]
        ELSE IF s[1] = Quote /\ Len(s) >= 2 /\ FindToken(s, 2, {Quote}) = Len(s)
        THEN [kind |-> "string"]
        ELSE [kind |-> "error"]

\* dict.get(key, default) on the members of a parsed object (the last
\* duplicate key wins, as in json.loads)
DictGet(members, key, default) ==
    LET hits == {i \in 1..Len(members) : members[i][1] = <<key>>}
    IN  IF hits = {} THEN default
        ELSE members[CHOOSE a \in hits : \A b \in hits : b <= a][2]

----------------------------------------------------------------------------
(* The state *)

VARIABLES
    contents,         \* core.models.Content rows: id -> row
    users,            \* core.models.User rows: id -> [age_group_id]
    progress,         \* core.models.UserProgress rows (a set of rows)
    forum,            \* core.models.ForumTopic, ForumPost and Comment rows: id -> row
    connections,      \* core.models.MentorConnection rows: id -> row
    cache,            \* django.core.cache: key -> value, unexpired entries only
    explanationsFile, \* curated_content/explanations.json: None or Some(list)
    hintsFile,        \* curated_content/hints.json: None or Some(dict)
    settings,         \* django.conf.settings.AI_ENGINE
    environ,          \* os.environ: the names of the credentials that are set
    currentAdapter,   \* adapter._current_adapter: the class of the instance
    instances,        \* the adapter objects constructed, and the one
                      \* _current_adapter refers to (0 for None)
    threads,          \* the request threads inside get_current_adapter
    last              \* the latest call of an engine function and what it returned

vars == <<contents, users, progress, forum, connections, cache, explanationsFile,
          hintsFile, settings, environ, currentAdapter, instances, threads, last>>

genVars == <<cache, explanationsFile, hintsFile, settings, environ, currentAdapter,
            instances, threads>>

\* NULL of a nullable column
NULL == 0
NoCall == [op |-> "none"]
\* no adapter object constructed yet
NoInstances == [built |-> 0, current |-> 0]
\* the request threads of the process
Threads == 1..NThreads
\* a thread outside get_current_adapter: how often it has called it, the
\* adapter_type it read from the settings, the object it constructed and the
\* objects it was returned
IdleThreads ==
    [t \in Threads |-> [pc |-> "idle", calls |-> 0, reads |-> 0,
                        adapter_type |-> "", made |-> 0, got |-> {}]]

ContentIds == 1..NContent
\* the two levels the adaptation engine is exercised between
AdaptLevels == {2, 3}
\* the one challenge row; id 2 names no row
ChallengeIds == {1}
AgeGroupIds == {1, 2}
ContentTypes == {"lesson", "quiz"}

----------------------------------------------------------------------------
(* Texts the model draws from *)

Title0 == <<"Loops">>
Title1 == <<"Loops", " ", "II">>
Desc0 == <<"Repeat", " ", "steps">>
Titles == {Title0, Title1}

\* what the provider's HTTP response carries as generated text
RawBlank == <<" ">>
RawPlain == <<"Just", " ", "text">>
RawLabeled == <<"Title", ":", " ", "Easy", " ", "Loops", "\n",
                "Description", ":", " ", "Go", " ", "round", "\n", "slowly">>
RawJson == <<"{", Quote, "title", Quote, ":", Quote, "X", Quote, ",",
             Quote, "description", Quote, ":", Quote, "Y", Quote, "}">>
\* a response that is a JSON string: json.loads gives a str
RawQuoted == <<Quote, "Just", " ", "text", Quote>>
RawResponses == {RawBlank, RawPlain, RawLabeled, RawJson, RawQuoted}

\* adapter.py: the string every provider adapter returns when its request fails
Placeholder == <<"I couldn't generate a response at this time.">>
\* content_generator.py:167
HintFallback == <<"Try thinking about the problem step by step. What is the first thing you need to do?">>
\* content_generator.py:74
ExplainFallback(concept, theme) ==
    <<"Sorry, I couldn't generate a ", theme, "-themed explanation for ", concept, " right now.">>

----------------------------------------------------------------------------
(* The result cache: django.core.cache *)

\* cache.get(key): None when the key is absent or expired
CacheGet(c, key) == IF key \in DOMAIN c THEN Some(c[key]) ELSE None
\* cache.set(key, value, CACHE_DURATION)
CacheSet(c, key, value) ==
    [k \in DOMAIN c \cup {key} |-> IF k = key THEN value ELSE c[k]]
\* the entry's ttl elapses
CacheDrop(c, key) == [k \in DOMAIN c \ {key} |-> c[k]]

----------------------------------------------------------------------------
(* The generation backend: ai_engine/adapter.py *)

CredentialOf(type) ==
    CASE type = "openai" -> "OPENAI_API_KEY"
      [] type = "cohere" -> "COHERE_API_KEY"
      [] type = "anthropic" -> "ANTHROPIC_API_KEY"
      [] type \in {"huggingface", "huggingface_api"} -> "HF_API_KEY"
      [] OTHER -> "-"

\* get_model_adapter(adapter_type): the adapter class constructed, or the
\* exception its constructor raises. HuggingFaceAdapter and MockAdapter
\* define neither abstract method of ModelAdapter, so instantiating them
\* raises TypeError.
GetModelAdapter(type, env) ==
    LET provider(cls) ==
            IF CredentialOf(type) \in env
            THEN [raised |-> FALSE, adapter |-> cls]
            ELSE [raised |-> TRUE, exc |-> "ValueError", adapter |-> "None"]
    IN  CASE type = "openai" -> provider("OpenAIAdapter")
          [] type = "cohere" -> provider("CohereAdapter")
          [] type = "anthropic" -> provider("AnthropicAdapter")
          [] type = "huggingface_api" -> provider("HuggingFaceInferenceAPIAdapter")
          [] OTHER -> [raised |-> TRUE, exc |-> "TypeError", adapter |-> "None"]

\* get_current_adapter(): the singleton, constructed on first use. Returns
\* [raised, adapter, environ]: the new value of _current_adapter and of
\* os.environ.
GetCurrentAdapter(cur, cfg, env) ==
    IF cur # "None" THEN [raised |-> FALSE, adapter |-> cur, environ |-> env]
    ELSE LET env2 == IF cfg.API_KEY /\ CredentialOf(cfg.ADAPTER_TYPE) # "-"
                     THEN env \cup {CredentialOf(cfg.ADAPTER_TYPE)} ELSE env
             made == GetModelAdapter(cfg.ADAPTER_TYPE, env2)
         IN  [raised |-> made.raised, adapter |-> made.adapter, environ |-> env2]

\* instances after a call of get_current_adapter that left _current_adapter
\* at adapter: a new object when the singleton was constructed by the call
Instantiated(adapter) ==
    IF currentAdapter = "None" /\ adapter # "None"
    THEN [built |-> instances.built + 1, current |-> instances.built + 1]
    ELSE instances

\* <Provider>Adapter.generate_text: the stripped text of the response, or
\* the placeholder when the request or the parsing of its payload fails
GenerateText(ok, raw) == IF ok THEN Strip(raw) ELSE Placeholder

----------------------------------------------------------------------------
(* The curated store: ai_engine/utils.py and the lookups of               *)
(* ai_engine/content_generator.py                                          *)

\* str.lower() on the concepts of the model
Lower(s) == IF s = "Loops" THEN "loops" ELSE s

\* _get_curated_explanation: the explanation of the first matching item of
\* explanations.json, None when the file is absent or nothing matches
GetCuratedExplanation(file, concept, theme, age_group) ==
    IF file = None THEN None
    ELSE LET items == file[1]
             hits == {i \in 1..Len(items) :
                        /\ Lower(items[i].concept) = Lower(concept)
                        /\ items[i].theme = theme
                        /\ (age_group = PyNone \/ items[i].age_group = age_group)}
         IN  IF hits = {} THEN None
             ELSE Some(items[CHOOSE a \in hits : \A b \in hits : a <= b].explanation)

\* _get_curated_hint: content.get(str(challenge_id), {}).get(str(hint_level))
GetCuratedHint(file, challenge_id, hint_level) ==
    IF file = None THEN None
    ELSE LET k == <<ToString(challenge_id), ToString(hint_level)>>
         IN  IF k \in DOMAIN file[1] THEN Some(file[1][k]) ELSE None

\* initialize_curated_content: creates each file that does not exist
InitializedFile(file, empty) == IF file = None THEN Some(empty) ELSE file

\* add_curated_explanation: [ok, file]; opening an absent file raises,
\* which is caught and reported as False
AddCuratedExplanationTo(file, concept, theme, age_group, explanation) ==
    IF file = None THEN [ok |-> FALSE, file |-> file]
    ELSE [ok |-> TRUE,
          file |-> Some(Append(file[1], [concept |-> concept, theme |-> theme,
                                         age_group |-> age_group,
                                         explanation |-> explanation]))]

\* add_curated_hint: content[str(challenge_id)][str(hint_level)] = hint_text
AddCuratedHintTo(file, challenge_id, hint_level, hint_text) ==
    IF file = None THEN [ok |-> FALSE, file |-> file]
    ELSE LET k == <<ToString(challenge_id), ToString(hint_level)>>
         IN  [ok |-> TRUE,
              file |-> Some([x \in DOMAIN file[1] \cup {k} |->
                               IF x = k THEN hint_text ELSE file[1][x]])]

----------------------------------------------------------------------------
(* Cache keys and the serialisation of cached results                      *)

\* f"themed_explanation:{concept}:{theme}:{age_group}"
ThemedKey(concept, theme, age_group) ==
    "themed_explanation:" \o concept \o ":" \o theme \o ":" \o Fmt(age_group)
\* f"hint:{challenge_id}:{hint_level}"
HintKey(challenge_id, hint_level) ==
    "hint:" \o ToString(challenge_id) \o ":" \o ToString(hint_level)
\* f"adapted_content:{content_id}:{target_difficulty}"
AdaptedKey(content_id, target_difficulty) ==
    "adapted_content:" \o ToString(content_id) \o ":" \o ToString(target_difficulty)

\* json.dumps(result) of a result dictionary: its items in insertion order
DumpEqual(r) ==
    <<"json", <<"title", r.title>>, <<"description", r.description>>,
      <<"difficulty", r.difficulty>>, <<"adapted", r.adapted>>>>
DumpAdapted(r) ==
    <<"json", <<"title", r.title>>, <<"description", r.description>>,
      <<"original_difficulty", r.original_difficulty>>,
      <<"target_difficulty", r.target_difficulty>>, <<"adapted", r.adapted>>>>
\* json.loads(cached_result): the dictionary of the dumped items
LoadResult(dumped) ==
    LET idx == 2..Len(dumped)
        keys == {dumped[i][1] : i \in idx}
    IN  [k \in keys |-> dumped[CHOOSE i \in idx : dumped[i][1] = k][2]]

----------------------------------------------------------------------------
(* ai_engine/content_generator.py                                          *)
(*                                                                         *)
(* Each function is an operator from its arguments and the two things the  *)
(* provider decides (ok: the outbound request succeeds; raw: the text it   *)
(* carries) to an outcome: the value returned, the new cache, the new      *)
(* singleton and environment, and how many times generate_text was called. *)

Outcome(result, newCache, got, calls, path) ==
    [result |-> result, cache |-> newCache, adapter |-> got.adapter,
     environ |-> got.environ, calls |-> calls, path |-> path]

\* the singleton and the environment left as they are
Untouched == [adapter |-> currentAdapter, environ |-> environ]

\* generate_themed_explanation(concept, theme, age_group, base_explanation)
ThemedExplanation(concept, theme, age_group, base, ok, raw) ==
    LET key == ThemedKey(concept, theme, age_group)
        cached == CacheGet(cache, key)
        curated == GetCuratedExplanation(explanationsFile, concept, theme, age_group)
        got == GetCurrentAdapter(currentAdapter, settings, environ)
        explanation == GenerateText(ok, raw)
    IN  IF Truthy(cached) THEN Outcome(cached[1], cache, Untouched, 0, "cache")
        ELSE IF Truthy(curated)
        THEN Outcome(curated[1], CacheSet(cache, key, curated[1]), Untouched, 0, "curated")
        ELSE IF got.raised
        THEN Outcome(IF Truthy(base) THEN base[1] ELSE ExplainFallback(concept, theme),
                     cache, got, 0, "except")
        ELSE Outcome(explanation, CacheSet(cache, key, explanation), got, 1, "generated")

\* the generic path caching whatever the attempt
GenericHintCachedAlways(personal, c, key, hint) == CacheSet(c, key, hint)

\* if not user_attempt: cache.set(cache_key, hint, CACHE_DURATION)
GenericHintCached(personal, c, key, hint) ==
    IF personal THEN c ELSE CacheSet(c, key, hint)

\* generate_hint(challenge_id, user_id, user_attempt, hint_level); flaky: the
\* Challenge lookup of the personalized path fails with a database error
GenerateHint(challenge_id, user_attempt, hint_level, flaky, ok, raw) ==
    LET key == HintKey(challenge_id, hint_level)
        cached == CacheGet(cache, key)
        curated == GetCuratedHint(hintsFile, challenge_id, hint_level)
        personal == user_attempt # ""
        exists == challenge_id \in ChallengeIds
        got == GetCurrentAdapter(currentAdapter, settings, environ)
        hint == GenerateText(ok, raw)
    IN  IF Truthy(cached) /\ ~personal THEN Outcome(cached[1], cache, Untouched, 0, "cache")
        ELSE IF Truthy(curated) /\ ~personal
        THEN Outcome(curated[1], CacheSet(cache, key, curated[1]), Untouched, 0, "curated")
        ELSE IF personal /\ exists /\ ~flaky /\ ~got.raised
        THEN Outcome(hint, cache, got, 1, "personalized")
        ELSE IF exists /\ ~got.raised
        THEN Outcome(hint, GenericHintCached(personal, cache, key, hint), got, 1, "generic")
        ELSE Outcome(HintFallback, cache, IF exists THEN got ELSE Untouched, 0, "except")

\* the parse of the adaptation in adapt_content_difficulty (lines 226-240)
ParseAdaptation(content, target_difficulty, adaptation) ==
    LET title_match == ReSearchLabel("Title", adaptation, FALSE)
        description_match == ReSearchLabel("Description", adaptation, TRUE)
    IN  [title |-> IF title_match # None THEN title_match[1] ELSE content.title,
         description |-> IF description_match # None THEN description_match[1]
                         ELSE adaptation,
         original_difficulty |-> content.difficulty_base,
         target_difficulty |-> target_difficulty,
         adapted |-> TRUE]

\* the result for a target equal to difficulty_base (lines 197-205)
Unadapted(content) ==
    [title |-> content.title, description |-> content.description,
     difficulty |-> content.difficulty_base, adapted |-> FALSE]

\* the result of the except branch (lines 246-252)
AdaptError(exc, original_title) ==
    [error |-> <<"Could not adapt content: ", exc>>,
     original_title |-> original_title, adapted |-> FALSE]

\* adapt_content_difficulty(content_id, user_id, target_difficulty)
AdaptContentDifficulty(content_id, target_difficulty, ok, raw) ==
    IF content_id \notin DOMAIN contents
    THEN Outcome(AdaptError("DoesNotExist", <<"Unknown">>), cache, Untouched, 0, "except")
    ELSE LET content == contents[content_id]
             key == AdaptedKey(content_id, target_difficulty)
             cached == CacheGet(cache, key)
             got == GetCurrentAdapter(currentAdapter, settings, environ)
             adaptation == GenerateText(ok, raw)
             result == ParseAdaptation(content, target_difficulty, adaptation)
         IN  IF Truthy(cached) THEN Outcome(LoadResult(cached[1]), cache, Untouched, 0, "cache")
             ELSE IF content.difficulty_base = target_difficulty
             THEN Outcome(Unadapted(content),
                          CacheSet(cache, key, DumpEqual(Unadapted(content))),
                          Untouched, 0, "equal")
             ELSE IF got.raised
             THEN Outcome(AdaptError(GetModelAdapter(settings.ADAPTER_TYPE, got.environ).exc,
                                     content.title), cache, got, 0, "except")
             ELSE Outcome(result, CacheSet(cache, key, DumpAdapted(result)), got, 1,
                          "generated")

----------------------------------------------------------------------------
(* ai_engine/difficulty_adjuster.py: adjust_content_difficulty             *)

\* adjust_content_difficulty(content, target_difficulty). ai_adapter is the
\* module-level adapter instance; its generate_text is the providers'
\* (the text of the response, or the placeholder when the request fails).
AdjustContentDifficulty(content, target_difficulty, ok, raw) ==
    LET current_difficulty == content.difficulty_base
        response == GenerateText(ok, raw)
        adjusted_content == JsonLoads(response)
    IN  IF current_difficulty = target_difficulty
        THEN [result |-> [title |-> content.title, description |-> content.description,
                          difficulty |-> current_difficulty, adjusted |-> FALSE],
              calls |-> 0, path |-> "equal"]
        ELSE IF adjusted_content.kind = "object"
        THEN [result |-> [title |-> DictGet(adjusted_content.members, "title", content.title),
                          description |-> DictGet(adjusted_content.members, "description",
                                                  content.description),
                          original_difficulty |-> current_difficulty,
                          difficulty |-> target_difficulty, adjusted |-> TRUE],
              calls |-> 1, path |-> "json"]
        ELSE IF adjusted_content.kind = "error"
        THEN [result |-> [title |-> content.title, description |-> response,
                          original_difficulty |-> current_difficulty,
                          difficulty |-> target_difficulty, adjusted |-> TRUE],
              calls |-> 1, path |-> "text"]
        ELSE [result |-> [title |-> content.title, description |-> content.description,
                          difficulty |-> current_difficulty,
                          error |-> <<"AttributeError">>, adjusted |-> FALSE],
              calls |-> 1, path |-> "except"]

----------------------------------------------------------------------------
(* The content generator as a state machine                                *)

Concepts == {"loops"}
\* the concept as curators spell it
CuratedConcepts == {"loops", "Loops"}
Themes == {"space"}
AgeGroupArgs == {PyNone, "Kids"}
BaseText == <<"A", " ", "loop", " ", "repeats">>
Bases == {None, Some(BaseText)}
CuratedA == <<"Curated", " ", "A">>
CuratedB == <<"Curated", " ", "B">>
HintLevels == {1}
Attempts == {"", "x = 1"}
\* responses to prompts whose answer is used as it is
TextRaws == {RawBlank, RawPlain}
\* the configurations of settings.AI_ENGINE the model starts from
Configs == {[ADAPTER_TYPE |-> "openai", API_KEY |-> TRUE],
            [ADAPTER_TYPE |-> "openai", API_KEY |-> FALSE],
            [ADAPTER_TYPE |-> "mock", API_KEY |-> FALSE]}

ContentRow(title, description, age_group_id, content_type, difficulty_base, created_at) ==
    [title |-> title, description |-> description, age_group_id |-> age_group_id,
     content_type |-> content_type, difficulty_base |-> difficulty_base,
     created_at |-> created_at]

Flip(t) == 1 - t
Tick == IF last.op = "none" THEN 0 ELSE Flip(last.tick)

\* the record of a call: what was asked, what came back, whether
\* generate_text was called (calls), whether its request failed (failed)
\* and what it returned (text); tick tells a call from the one before it
Called(op, args, o, ok, raw) ==
    [op |-> op, args |-> args, result |-> o.result, calls |-> o.calls,
     failed |-> (o.calls > 0 /\ ~ok),
     text |-> IF o.calls > 0 THEN GenerateText(ok, raw) ELSE <<>>,
     path |-> o.path, tick |-> Tick]

\* one content row at one of the two levels, no curated files, an empty
\* cache, the singleton not yet constructed
InitGen ==
    /\ \E d \in AdaptLevels :
          contents = [c \in {1} |-> ContentRow(Title0, Desc0, 1, "lesson", d, 1)]
    /\ users = <<>>
    /\ forum = <<>>
    /\ connections = <<>>
    /\ progress = {}
    /\ cache = <<>>
    /\ explanationsFile = None
    /\ hintsFile = None
    /\ settings \in Configs
    /\ environ = {}
    /\ currentAdapter = "None"
    /\ instances = NoInstances
    /\ threads = IdleThreads
    /\ last = NoCall

ExplainOn(ages, bases) ==
    \E concept \in Concepts, theme \in Themes, age_group \in ages,
       base \in bases, ok \in BOOLEAN, raw \in TextRaws :
        LET o == ThemedExplanation(concept, theme, age_group, base, ok, raw)
        IN  /\ cache' = o.cache
            /\ currentAdapter' = o.adapter
            /\ environ' = o.environ
            /\ last' = Called("explain", <<concept, theme, age_group, base>>, o, ok, raw)
            /\ instances' = Instantiated(o.adapter)
            /\ UNCHANGED <<contents, users, forum, connections, progress, explanationsFile,
                           hintsFile, settings,
                           threads>>

Explain == ExplainOn(AgeGroupArgs, Bases)

HintOn(ids, attempts, flakies) ==
    \E challenge_id \in ids, user_attempt \in attempts,
       hint_level \in HintLevels, flaky \in flakies, ok \in BOOLEAN,
       raw \in TextRaws :
        LET o == GenerateHint(challenge_id, user_attempt, hint_level, flaky, ok, raw)
        IN  /\ cache' = o.cache
            /\ currentAdapter' = o.adapter
            /\ environ' = o.environ
            /\ last' = Called("hint", <<challenge_id, user_attempt, hint_level>>, o, ok, raw)
            /\ instances' = Instantiated(o.adapter)
            /\ UNCHANGED <<contents, users, forum, connections, progress, explanationsFile,
                           hintsFile, settings,
                           threads>>

Hint == HintOn(ChallengeIds \cup {2}, Attempts, BOOLEAN)

AdaptOn(ids, raws) ==
    \E content_id \in ids, target_difficulty \in AdaptLevels, ok \in BOOLEAN,
       raw \in raws :
        LET o == AdaptContentDifficulty(content_id, target_difficulty, ok, raw)
        IN  /\ cache' = o.cache
            /\ currentAdapter' = o.adapter
            /\ environ' = o.environ
            /\ last' = Called("adapt", <<content_id, target_difficulty>>, o, ok, raw)
            /\ instances' = Instantiated(o.adapter)
            /\ UNCHANGED <<contents, users, forum, connections, progress, explanationsFile,
                           hintsFile, settings,
                           threads>>

\* content id 2 names no row
Adapt == AdaptOn({1, 2}, RawResponses)

Adjust ==
    \E content_id \in DOMAIN contents, target_difficulty \in AdaptLevels,
       ok \in BOOLEAN, raw \in RawResponses :
        LET o == AdjustContentDifficulty(contents[content_id], target_difficulty, ok, raw)
        IN  /\ last' = Called("adjust", <<content_id, target_difficulty>>, o, ok, raw)
            /\ UNCHANGED <<contents, users, forum, connections, progress, genVars>>

\* ContentDetailView PUT/PATCH: the catalog changes a row
UpdateContent ==
    \E content_id \in DOMAIN contents, title \in Titles, d \in AdaptLevels :
        /\ contents' = [contents EXCEPT ![content_id].title = title,
                                        ![content_id].difficulty_base = d]
        /\ contents' # contents
        /\ last' = NoCall
        /\ UNCHANGED <<users, forum, connections, progress, genVars>>

InitializeCuratedContent ==
    /\ explanationsFile' = InitializedFile(explanationsFile, <<>>)
    /\ hintsFile' = InitializedFile(hintsFile, <<>>)
    /\ last' = NoCall
    /\ UNCHANGED <<contents, users, forum, connections, progress, cache, settings, environ,
                   currentAdapter,
                   instances, threads>>

AddCuratedExplanation ==
    \E concept \in CuratedConcepts, theme \in Themes, age_group \in AgeGroupArgs,
       explanation \in {CuratedA, CuratedB} :
        LET r == AddCuratedExplanationTo(explanationsFile, concept, theme, age_group,
                                         explanation)
        IN  /\ explanationsFile # None => Len(explanationsFile[1]) < MaxCurated
            /\ explanationsFile' = r.file
            /\ last' = [op |-> "add_explanation", result |-> r.ok,
                        args |-> <<concept, theme, age_group, explanation>>,
                        tick |-> Tick]
            /\ UNCHANGED <<contents, users, forum, connections, progress, cache, hintsFile,
                           settings, environ,
                           currentAdapter, instances, threads>>

AddCuratedHint ==
    \E challenge_id \in ChallengeIds, hint_level \in HintLevels,
       hint_text \in {CuratedA, CuratedB} :
        LET r == AddCuratedHintTo(hintsFile, challenge_id, hint_level, hint_text)
        IN  /\ hintsFile' = r.file
            /\ last' = [op |-> "add_hint", result |-> r.ok,
                        args |-> <<challenge_id, hint_level, hint_text>>,
                        tick |-> Tick]
            /\ UNCHANGED <<contents, users, forum, connections, progress, cache,
                           explanationsFile, settings,
                           environ, currentAdapter, instances, threads>>

\* the ttl of an entry elapses
CacheExpire ==
    \E key \in DOMAIN cache :
        /\ cache' = CacheDrop(cache, key)
        /\ last' = NoCall
        /\ UNCHANGED <<contents, users, forum, connections, progress, explanationsFile,
                       hintsFile, settings,
                       environ, currentAdapter, instances, threads>>

\* themed explanations over the curated explanations and the cache
NextExplain ==
    \/ Explain
    \/ InitializeCuratedContent
    \/ AddCuratedExplanation
    \/ CacheExpire

SpecExplain == InitGen /\ [][NextExplain]_vars

\* content adaptation over the catalog and the cache
NextAdapt ==
    \/ Adapt
    \/ Adjust
    \/ UpdateContent
    \/ CacheExpire

SpecAdapt == InitGen /\ [][NextAdapt]_vars

\* the three cached functions, each on one argument tuple, over one cache
NextCache ==
    \/ ExplainOn({PyNone}, {None})
    \/ HintOn(ChallengeIds, {""}, {FALSE})
    \/ AdaptOn({1}, TextRaws)
    \/ CacheExpire

SpecCache == InitGen /\ [][NextCache]_vars

\* hints over the curated hints and the cache
NextHint ==
    \/ Hint
    \/ InitializeCuratedContent
    \/ AddCuratedHint
    \/ CacheExpire

SpecHint == InitGen /\ [][NextHint]_vars

\* the curated store: its two add functions and the lookups of the two
\* generators that read it
NextCurated ==
    \/ ExplainOn({"Kids"}, {None})
    \/ HintOn(ChallengeIds, {""}, {FALSE})
    \/ InitializeCuratedContent
    \/ AddCuratedExplanation
    \/ AddCuratedHint

SpecCurated == InitGen /\ [][NextCurated]_vars

----------------------------------------------------------------------------
(* ai_engine/chat_service.py                                               *)

\* the message of the except branch of generate_chat_response
ChatFallback == <<"I'm having trouble thinking right now. Let's chat again in a moment!">>

\* generate_chat_response(message, user_data): get_current_adapter() is
\* called before the try block, so what it raises leaves the function; the
\* try block holds generate_text alone, which returns the placeholder
\* instead of raising.
GenerateChatResponse(ok, raw) ==
    LET got == GetCurrentAdapter(currentAdapter, settings, environ)
    IN  IF got.raised
        THEN [raised |-> TRUE,
              result |-> [exc |-> GetModelAdapter(settings.ADAPTER_TYPE, got.environ).exc],
              adapter |-> got.adapter, environ |-> got.environ, calls |-> 0,
              path |-> "raised"]
        ELSE [raised |-> FALSE,
              result |-> [message |-> GenerateText(ok, raw), success |-> TRUE],
              adapter |-> got.adapter, environ |-> got.environ, calls |-> 1,
              path |-> "generated"]

\* ChatView.post calling generate_chat_response
Chat ==
    \E message \in {"hi"}, ok \in BOOLEAN, raw \in TextRaws :
        LET o == GenerateChatResponse(ok, raw)
        IN  /\ currentAdapter' = o.adapter
            /\ environ' = o.environ
            /\ instances' = Instantiated(o.adapter)
            /\ last' = [Called("chat", <<message>>, o, ok, raw) EXCEPT
                            !.failed = ~ok \/ o.raised] @@ [raised |-> o.raised]
            /\ UNCHANGED <<contents, users, forum, connections, progress, cache,
                           explanationsFile, hintsFile,
                           settings, threads>>

\* the chat service beside another user of the singleton
NextChat ==
    \/ Chat
    \/ ExplainOn(AgeGroupArgs, {None})
    \/ CacheExpire

SpecChat == InitGen /\ [][NextChat]_vars

----------------------------------------------------------------------------
(* ai_engine/adapter.py: generate_text and classify_content of the four    *)
(* provider adapters                                                       *)

Providers == {"openai", "cohere", "anthropic", "huggingface_api"}
\* the providers that classify by prompting generate_text
PromptProviders == {"openai", "anthropic"}
\* the categories lists: every list of at most MaxCategories names
CategoryLists ==
    UNION {[1..n -> {"math", "art"}] : n \in 0..MaxCategories}
\* generated texts a classification prompt is answered with: no JSON, a
\* JSON object, a JSON object inside prose, and braces that hold no JSON
ClassifyRaws ==
    {RawPlain, RawJson, <<"Sure", ":", " ">> \o RawJson \o <<"\n">>,
     <<"{", Quote, "math", Quote, "}">>}

\* generate_text: try: ... return <text>.strip() / except Exception: return
\* "I couldn't generate a response at this time."
TextCaught(exc, text) ==
    [raised |-> FALSE, value |-> IF exc = "none" THEN text ELSE Placeholder]

\* <Provider>Adapter.generate_text(prompt); ok is false when the request
\* fails, answers non-2xx or carries a payload without the expected fields
ProviderGenerateText(provider, ok, raw) ==
    TextCaught(IF ok THEN "none" ELSE "RequestException", Strip(raw))

\* {category: 1.0/len(categories) for category in categories}, a score being
\* a numerator and a denominator: the division
\* is evaluated once per category, so never for an empty list
EqualScores(categories) ==
    [c \in {categories[i] : i \in 1..Len(categories)} |-> <<1, Len(categories)>>]

\* {category: 0.0 for category in categories}
ZeroScores(categories) ==
    [c \in {categories[i] : i \in 1..Len(categories)} |-> <<0, 1>>]

\* classify_content with the except clause removed
ClassifyUncaught(exc, categories, result) ==
    [raised |-> exc # "none",
     value |-> IF exc = "none" THEN result
               ELSE [kind |-> "scores", scores |-> ZeroScores(categories)]]

\* classify_content: try: ... return result / except Exception: return
\* {category: 0.0 for category in categories}
ClassifyCaught(exc, categories, result) ==
    [raised |-> FALSE,
     value |-> IF exc = "none" THEN result
               ELSE [kind |-> "scores", scores |-> ZeroScores(categories)]]

\* re.search(r'{.*}', s, re.DOTALL): from the first "{" to the last "}"
ReSearchBraces(s) ==
    LET opens == {i \in 1..Len(s) : s[i] = "{"}
        first == CHOOSE a \in opens : \A b \in opens : a <= b
        closes == {j \in 1..Len(s) : s[j] = "}" /\ j > first}
    IN  IF opens = {} \/ closes = {} THEN None
        ELSE Some(SubSeq(s, first, CHOOSE a \in closes : \A b \in closes : b <= a))

\* OpenAIAdapter / AnthropicAdapter.classify_content: the JSON object found
\* in the generated text, equal scores when there is none
PromptClassifyContent(categories, ok, raw) ==
    LET result_text == ProviderGenerateText("openai", ok, raw).value
        json_match == ReSearchBraces(result_text)
        result == JsonLoads(json_match[1])
    IN  IF json_match # None
        THEN ClassifyCaught(IF result.kind = "error" THEN "JSONDecodeError" ELSE "none",
                            categories, [kind |-> "parsed", members |-> result.members])
        ELSE ClassifyCaught("none", categories,
                            [kind |-> "scores", scores |-> EqualScores(categories)])

\* CohereAdapter / HuggingFaceInferenceAPIAdapter.classify_content: the
\* labels zipped with the scores of the endpoint's answer
ApiClassifyContent(categories, ok, payload) ==
    ClassifyCaught(IF ok THEN "none" ELSE "RequestException", categories,
                   [kind |-> "scores",
                    scores |-> [c \in {payload[i][1] : i \in 1..Len(payload)} |->
                                   (CHOOSE q \in {payload[i] : i \in 1..Len(payload)} :
                                        q[1] = c)[2]]])

\* a call of generate_text on a provider adapter
ProviderGenerate ==
    \E provider \in Providers, ok \in BOOLEAN, raw \in RawResponses :
        LET r == ProviderGenerateText(provider, ok, raw)
        IN  /\ last' = [op |-> "generate_text", args |-> <<provider, raw>>,
                        result |-> r.value, raised |-> r.raised, failed |-> ~ok]
            /\ UNCHANGED <<contents, users, forum, connections, progress, genVars>>

\* a call of classify_content on a prompting provider
PromptClassify ==
    \E provider \in PromptProviders, categories \in CategoryLists, ok \in BOOLEAN,
       raw \in ClassifyRaws :
        LET r == PromptClassifyContent(categories, ok, raw)
        IN  /\ last' = [op |-> "classify_content", args |-> <<provider, categories, raw>>,
                        result |-> r.value, raised |-> r.raised,
                        failed |-> \/ ~ok
                                   \/ ReSearchBraces(Strip(raw)) = None
                                   \/ JsonLoads(ReSearchBraces(Strip(raw))[1]).kind = "error"]
            /\ UNCHANGED <<contents, users, forum, connections, progress, genVars>>

\* a call of classify_content on a provider with a classification endpoint,
\* which answers with labels and their scores
ApiClassify ==
    \E provider \in Providers \ PromptProviders, categories \in CategoryLists,
       ok \in BOOLEAN,
       payload \in {<<>>, <<<<"math", <<9, 10>>>>, <<"art", <<1, 10>>>>>>} :
        LET r == ApiClassifyContent(categories, ok, payload)
        IN  /\ last' = [op |-> "classify_content", args |-> <<provider, categories, payload>>,
                        result |-> r.value, raised |-> r.raised, failed |-> ~ok]
            /\ UNCHANGED <<contents, users, forum, connections, progress, genVars>>

NextProviders ==
    \/ ProviderGenerate
    \/ PromptClassify
    \/ ApiClassify

SpecProviders == InitGen /\ [][NextProviders]_vars

----------------------------------------------------------------------------
(* get_current_adapter called by concurrent request threads: every line of *)
(* the function that reads or writes shared state is a step of its own     *)

\* the call begins: if _current_adapter is None
EnterGetCurrentAdapter(t) ==
    /\ threads[t].pc \in {"idle", "done", "raised"}
    /\ threads[t].calls < MaxCalls
    /\ threads' = [threads EXCEPT ![t].pc = IF currentAdapter = "None" THEN "settings"
                                            ELSE "return",
                                  ![t].calls = @ + 1]
    /\ UNCHANGED <<contents, users, forum, connections, progress, cache, explanationsFile,
                   hintsFile,
                   settings, environ, currentAdapter, instances, last>>

\* adapter_type and api_key are read from settings.AI_ENGINE and the
\* credential is put into os.environ
ReadSettings(t) ==
    /\ threads[t].pc = "settings"
    /\ environ' = IF settings.API_KEY /\ CredentialOf(settings.ADAPTER_TYPE) # "-"
                  THEN environ \cup {CredentialOf(settings.ADAPTER_TYPE)} ELSE environ
    /\ threads' = [threads EXCEPT ![t].pc = "construct", ![t].reads = @ + 1,
                                  ![t].adapter_type = settings.ADAPTER_TYPE]
    /\ UNCHANGED <<contents, users, forum, connections, progress, cache, explanationsFile,
                   hintsFile,
                   settings, currentAdapter, instances, last>>

\* get_model_adapter(adapter_type, **model_kwargs) constructs an object or raises
ConstructAdapter(t) ==
    /\ threads[t].pc = "construct"
    /\ LET made == GetModelAdapter(threads[t].adapter_type, environ)
       IN  IF made.raised
           THEN /\ threads' = [threads EXCEPT ![t].pc = "raised"]
                /\ UNCHANGED instances
           ELSE /\ threads' = [threads EXCEPT ![t].pc = "assign",
                                             ![t].made = instances.built + 1]
                /\ instances' = [instances EXCEPT !.built = @ + 1]
    /\ UNCHANGED <<contents, users, forum, connections, progress, cache, explanationsFile,
                   hintsFile,
                   settings, environ, currentAdapter, last>>

\* _current_adapter = <the object constructed>
AssignCurrentAdapter(t) ==
    /\ threads[t].pc = "assign"
    /\ currentAdapter' = GetModelAdapter(threads[t].adapter_type, environ).adapter
    /\ instances' = [instances EXCEPT !.current = threads[t].made]
    /\ threads' = [threads EXCEPT ![t].pc = "return"]
    /\ UNCHANGED <<contents, users, forum, connections, progress, cache, explanationsFile,
                   hintsFile,
                   settings, environ, last>>

\* return _current_adapter
ReturnCurrentAdapter(t) ==
    /\ threads[t].pc = "return"
    /\ threads' = [threads EXCEPT ![t].pc = "done", ![t].got = @ \cup {instances.current}]
    /\ UNCHANGED <<contents, users, forum, connections, progress, cache, explanationsFile,
                   hintsFile,
                   settings, environ, currentAdapter, instances, last>>

NextThreads ==
    \E t \in Threads :
        \/ EnterGetCurrentAdapter(t)
        \/ ReadSettings(t)
        \/ ConstructAdapter(t)
        \/ AssignCurrentAdapter(t)
        \/ ReturnCurrentAdapter(t)

SpecThreads == InitGen /\ [][NextThreads]_vars

----------------------------------------------------------------------------
(* ai_engine/recommendation.py over the tables of core/models.py           *)

\* a new UserProgress row: content_id and challenge_id are nullable, one is
\* set; points_earned defaults to 0 and completed_at to NULL. The table is a
\* multiset, nothing in it being unique but the primary key: a row is told
\* from the other rows of its learner on its item by nth, its rank among
\* them by primary key
ProgressRow(nth, user_id, content_id, challenge_id, completion_percentage) ==
    [nth |-> nth, user_id |-> user_id, content_id |-> content_id,
     challenge_id |-> challenge_id, completion_percentage |-> completion_percentage,
     points_earned |-> 0, completed_at |-> NULL]

\* x IN (values) of SQL for a non-null x: unknown when no value equals x
\* and one of the values is NULL
SqlIn(x, values) ==
    IF x \in values \ {NULL} THEN "true"
    ELSE IF NULL \in values THEN "null"
    ELSE "false"

SqlNot(b) == CASE b = "true" -> "false" [] b = "false" -> "true" [] OTHER -> "null"

\* UserProgress.objects.filter(user_id=..., completion_percentage__gte=80)
\*     .values_list('content_id', flat=True)
CompletedContentIds(user_id) ==
    {r.content_id : r \in {q \in progress :
        q.user_id = user_id /\ q.completion_percentage >= RecCompletedPct}}

\* UserProgress.objects.filter(user_id=...).values_list('content_id', flat=True)
ViewedContentIds(user_id) ==
    {r.content_id : r \in {q \in progress : q.user_id = user_id}}

\* the filter of C6 with the age group dropped
FilterAnyAgeGroup(age_group_id) == DOMAIN contents

\* Content.objects.filter(age_group_id=age_group_id): None is looked up as IS NULL
FilterAgeGroup(age_group_id) ==
    {c \in DOMAIN contents :
        IF age_group_id = NULL THEN contents[c].age_group_id = NULL
        ELSE contents[c].age_group_id # NULL /\ contents[c].age_group_id = age_group_id}

\* if content_type: query = query.filter(content_type=content_type)
FilterContentType(query, content_type) ==
    IF content_type \notin {PyNone, ""}
    THEN {c \in query : contents[c].content_type = content_type}
    ELSE query

\* query.exclude(id__in=completed_content_ids): WHERE NOT (id IN (subquery))
Exclude(query, completed_content_ids) ==
    {c \in query : SqlNot(SqlIn(c, completed_content_ids)) = "true"}

\* Case(When(id__in=viewed_content_ids, then=10), default=0)
InProgress(c, viewed_content_ids) ==
    IF SqlIn(c, viewed_content_ids) = "true" THEN InProgressBonus ELSE 0

\* Case(When(difficulty_base__lte=3, then=5), default=1)
RelevanceScore(c) ==
    IF contents[c].difficulty_base <= RelevanceCutoff THEN RelevanceHigh ELSE RelevanceLow

\* the ordering with difficulty_base descending
OrderKeyHardestFirst(c, viewed_content_ids) ==
    <<0 - InProgress(c, viewed_content_ids), 0 - RelevanceScore(c),
      0 - contents[c].difficulty_base, 0 - contents[c].created_at>>

\* order_by('-in_progress', '-relevance_score', 'difficulty_base', '-created_at'):
\* the tuple the rows are compared by, ascending
OrderKey(c, viewed_content_ids) ==
    <<0 - InProgress(c, viewed_content_ids), 0 - RelevanceScore(c),
      contents[c].difficulty_base, 0 - contents[c].created_at>>

\* a sorts strictly before b
LexLess(a, b) ==
    \E i \in 1..Len(a) : a[i] < b[i] /\ \A j \in 1..(i - 1) : a[j] = b[j]

\* ORDER BY over the rows in the order the database scans them: rows whose
\* keys are equal stay in scan order
RECURSIVE OrderBy(_, _)
OrderBy(rows, viewed_content_ids) ==
    IF Len(rows) <= 1 THEN rows
    ELSE LET x == rows[Len(rows)]
             t == OrderBy(SubSeq(rows, 1, Len(rows) - 1), viewed_content_ids)
             p == Cardinality({i \in 1..Len(t) :
                      ~LexLess(OrderKey(x, viewed_content_ids),
                               OrderKey(t[i], viewed_content_ids))})
         IN  SubSeq(t, 1, p) \o <<x>> \o SubSeq(t, p + 1, Len(t))

\* the dictionary appended to result for one row
Recommendation(c, viewed_content_ids) ==
    [content_id |-> c, title |-> contents[c].title,
     content_type |-> contents[c].content_type,
     difficulty |-> contents[c].difficulty_base,
     relevance_score |-> RelevanceScore(c) + InProgress(c, viewed_content_ids)]

\* the handlers with the clause for Exception removed
CaughtDoesNotExistOnly(exc, result) ==
    [raised |-> exc \notin {"none", "DoesNotExist"},
     value |-> IF exc = "none" THEN result ELSE <<>>]

\* try: ... return result / except User.DoesNotExist: return [] /
\* except Exception: return []
Caught(exc, result) ==
    [raised |-> FALSE, value |-> IF exc = "none" THEN result ELSE <<>>]

\* get_personalized_recommendations(user_id, count, content_type). scan is
\* the order the database scans Content in; db_ok is false when a query
\* fails. recommended_content[:count] raises ValueError for a negative count.
GetPersonalizedRecommendations(user_id, count, content_type, scan, db_ok) ==
    LET exc == IF ~db_ok THEN "OperationalError"
               ELSE IF user_id \notin DOMAIN users THEN "DoesNotExist"
               ELSE IF count < 0 THEN "ValueError"
               ELSE "none"
        age_group_id == users[user_id].age_group_id
        completed_content_ids == CompletedContentIds(user_id)
        viewed_content_ids == ViewedContentIds(user_id)
        query == Exclude(FilterContentType(FilterAgeGroup(age_group_id), content_type),
                         completed_content_ids)
        recommended_content == OrderBy(SelectSeq(scan, LAMBDA c : c \in query),
                                       viewed_content_ids)
        recommendations == SubSeq(recommended_content, 1,
                                  Min(count, Len(recommended_content)))
        result == [i \in 1..Len(recommendations) |->
                      Recommendation(recommendations[i], viewed_content_ids)]
    IN  Caught(exc, result)

----------------------------------------------------------------------------
(* ai_engine/difficulty_adjuster.py: get_appropriate_difficulty_level      *)

\* the rows of the user whatever their completion
AllProgress(user_id) == {r \in progress : r.user_id = user_id}

\* UserProgress.objects.filter(user_id=..., completion_percentage__gte=75)
CompletedProgress(user_id) ==
    {r \in progress : r.user_id = user_id /\ r.completion_percentage >= CompletedPct}

RECURSIVE SumDifficulty(_)
SumDifficulty(rows) ==
    IF rows = {} THEN 0
    ELSE LET r == CHOOSE q \in rows : TRUE
         IN  contents[r.content_id].difficulty_base + SumDifficulty(rows \ {r})

\* round(num / den) of Python: to the nearest integer, a half to the even one
Round(num, den) ==
    LET q == num \div den
        r == num % den
    IN  IF 2 * r < den THEN q
        ELSE IF 2 * r > den THEN q + 1
        ELSE IF q % 2 = 0 THEN q ELSE q + 1

\* the rounded average without max(1, min(5, ...))
UnclampedAverage(completed_progress) ==
    LET joined == {r \in completed_progress : r.content_id # NULL}
        total == SumDifficulty(joined)
        avg_difficulty == IF joined = {} \/ total = 0 THEN <<1, 1>>
                          ELSE <<total, Cardinality(joined)>>
    IN  Round(avg_difficulty[1], avg_difficulty[2])

\* max(1, min(5, round(avg_difficulty))) where avg_difficulty is
\* aggregate(Avg('content__difficulty_base'))['avg_diff'] or 1: Avg skips the
\* rows without content, is None when there is none, and 0.0 is false too
RoundedAverage(completed_progress) ==
    LET joined == {r \in completed_progress : r.content_id # NULL}
        total == SumDifficulty(joined)
        avg_difficulty == IF joined = {} \/ total = 0 THEN <<1, 1>>
                          ELSE <<total, Cardinality(joined)>>
    IN  Max(MinLevel, Min(MaxLevel, Round(avg_difficulty[1], avg_difficulty[2])))

\* the ratio with completion_percentage__gte=75 in the place of 90
HighPerformanceAtCompleted(completed_progress) ==
    10 * Cardinality({r \in completed_progress : r.completion_percentage >= CompletedPct})
        >= 7 * Cardinality(completed_progress)

\* filter(completion_percentage__gte=90).count() / count() >= 0.7
HighPerformance(completed_progress) ==
    10 * Cardinality({r \in completed_progress : r.completion_percentage >= HighPct})
        >= 7 * Cardinality(completed_progress)

\* try: ... return recommended_difficulty / except Exception: return 1
Estimated(exc, level) ==
    [raised |-> FALSE, value |-> IF exc = "none" THEN level ELSE MinLevel]

\* get_appropriate_difficulty_level(user_id); db_ok is false when a query fails
GetAppropriateDifficultyLevel(user_id, db_ok) ==
    LET completed_progress == CompletedProgress(user_id)
        recommended_difficulty == RoundedAverage(completed_progress)
    IN  Estimated(IF db_ok THEN "none" ELSE "OperationalError",
                  IF completed_progress = {} THEN MinLevel
                  ELSE IF HighPerformance(completed_progress)
                  THEN Min(MaxLevel, recommended_difficulty + 1)
                  ELSE recommended_difficulty)

----------------------------------------------------------------------------
(* The catalog, the learners and their progress as a state machine         *)

\* user 3 names no row
UserArgs == {1, 2, 3}
\* a negative count, none, and one less than the catalog holds
Counts == {0 - 1, 0, NContent - 1}
ContentTypeArgs == {PyNone, "lesson"}
\* the calls of get_personalized_recommendations: a failing query and a
\* negative count are tried without a content type, the failing query with
\* the largest count
RecommendCalls ==
    {q \in UserArgs \X Counts \X ContentTypeArgs \X BOOLEAN :
        /\ q[2] < 0 => q[3] = PyNone
        /\ ~q[4] => (q[2] = NContent - 1 /\ q[3] = PyNone)}
\* the difficulty levels of the catalog: one at the cutoff of the relevance
\* score, one below it and one above it
CatalogLevels == {1, RelevanceCutoff, MaxDifficulty}
\* completion percentages around the threshold of the recommendations
RecPcts == {RecCompletedPct - 1, RecCompletedPct}
\* completion percentages around the thresholds of the estimator
DiffPcts == {CompletedPct - 1, CompletedPct, HighPct}
\* the difficulty levels the estimator averages: difficulty_base is an
\* unconstrained IntegerField, so below, inside and above 1..5
DiffLevels == {0 - 1, 0, 2, 3, MaxDifficulty + 3}
\* the orders a scan of Content may deliver its rows in: by id, ascending
\* or descending
ScanOrders ==
    {[i \in 1..NContent |-> i], [i \in 1..NContent |-> NContent + 1 - i]}
\* what the learners work on: learner 1 on every content row and on the
\* challenge (content_id NULL), learner 2 on content 1
Worked == {<<1, c>> : c \in ContentIds \cup {NULL}} \cup {<<2, 1>>}

\* a catalog of NContent rows, the first below or above the cutoff, the
\* second at any level and the others at the cutoff, the last of them
\* possibly for the other age group and created together with the one before
\* it; learner 1 in age group 1, learner 2 without an age group; no progress
InitDb ==
    /\ \E d \in [ContentIds -> CatalogLevels], a \in AgeGroupIds :
          /\ d[1] # RelevanceCutoff
          /\ \A c \in ContentIds : c > 2 => d[c] = RelevanceCutoff
          /\ contents = [c \in ContentIds |->
                ContentRow(Title0, Desc0, IF c = NContent THEN a ELSE 1,
                           IF c = 2 THEN "quiz" ELSE "lesson", d[c],
                           IF c = NContent THEN NContent - 1 ELSE c)]
    /\ users = (1 :> [age_group_id |-> 1]) @@ (2 :> [age_group_id |-> NULL])
    /\ forum = <<>>
    /\ connections = <<>>
    /\ progress = {}
    /\ cache = <<>>
    /\ explanationsFile = None
    /\ hintsFile = None
    /\ settings = [ADAPTER_TYPE |-> "openai", API_KEY |-> TRUE]
    /\ environ = {}
    /\ currentAdapter = "None"
    /\ instances = NoInstances
    /\ threads = IdleThreads
    /\ last = NoCall

\* the same learners over a catalog of one age group whose first two rows
\* are at any level of DiffLevels
InitDiff ==
    /\ \E d \in [ContentIds -> DiffLevels] :
          /\ \A c \in ContentIds : c > 2 => d[c] = RelevanceCutoff
          /\ contents = [c \in ContentIds |->
                ContentRow(Title0, Desc0, 1, "lesson", d[c], c)]
    /\ users = (1 :> [age_group_id |-> 1]) @@ (2 :> [age_group_id |-> NULL])
    /\ forum = <<>>
    /\ connections = <<>>
    /\ progress = {}
    /\ cache = <<>>
    /\ explanationsFile = None
    /\ hintsFile = None
    /\ settings = [ADAPTER_TYPE |-> "openai", API_KEY |-> TRUE]
    /\ environ = {}
    /\ currentAdapter = "None"
    /\ instances = NoInstances
    /\ threads = IdleThreads
    /\ last = NoCall

\* the rows of a learner on an item: filter(user=..., content_id=...) or
\* filter(user=..., challenge_id=...)
RowsOf(user_id, content_id, challenge_id) ==
    {r \in progress : /\ r.user_id = user_id
                      /\ IF content_id # NULL THEN r.content_id = content_id
                         ELSE r.challenge_id = challenge_id}

\* int(50 * ((difficulty_base / 3) + 0.5)): int() truncates towards zero
ContentPoints(difficulty_base) ==
    LET thirds == BasePoints * difficulty_base + (BasePoints \div 2) * 3
    IN  IF thirds >= 0 THEN thirds \div 3 ELSE 0 - ((0 - thirds) \div 3)

\* the row TrackCompletionView.post saves for a higher completion_percentage
\* (lines 65-79); timezone.now() is 1
Completed(row, completion_percentage) ==
    IF completion_percentage >= FullPct
    THEN [row EXCEPT !.completion_percentage = completion_percentage,
                     !.completed_at = 1,
                     !.points_earned =
                         IF row.challenge_id # NULL THEN ChallengePoints
                         ELSE ContentPoints(contents[row.content_id].difficulty_base)]
    ELSE [row EXCEPT !.completion_percentage = completion_percentage]

\* UserProgress.objects.get_or_create(user=..., content_id=... or
\* challenge_id=..., defaults={'completion_percentage': 0})
GetOrCreate(user_id, content_id, challenge_id) ==
    LET found == RowsOf(user_id, content_id, challenge_id)
    IN  IF found # {} THEN [row |-> CHOOSE r \in found : TRUE, created |-> FALSE]
        ELSE [row |-> ProgressRow(1, user_id, content_id, challenge_id, 0),
              created |-> TRUE]

\* ContentDetailView.retrieve by an authenticated learner
ViewContent ==
    \E user_id \in DOMAIN users, content_id \in DOMAIN contents :
        LET g == GetOrCreate(user_id, content_id, NULL)
        IN  /\ <<user_id, content_id>> \in Worked
            /\ g.created => Cardinality(progress) < MaxRecords
            /\ progress' = progress \cup {g.row}
            /\ last' = NoCall
            /\ UNCHANGED <<contents, users, forum, connections, genVars>>

\* TrackCompletionView.post with content_id, or with challenge_id alone
TrackOn(pcts) ==
    \E user_id \in DOMAIN users, content_id \in DOMAIN contents \cup {NULL},
       completion_percentage \in pcts :
        LET challenge_id == IF content_id = NULL THEN 1 ELSE NULL
            g == GetOrCreate(user_id, content_id, challenge_id)
            saved == IF completion_percentage > g.row.completion_percentage
                     THEN Completed(g.row, completion_percentage)
                     ELSE g.row
        IN  /\ <<user_id, content_id>> \in Worked
            /\ g.created => Cardinality(progress) < MaxRecords
            /\ progress' = (progress \ {g.row}) \cup {saved}
            /\ last' = NoCall
            /\ UNCHANGED <<contents, users, forum, connections, genVars>>

\* completion percentages a client may send: negative, partial, full and
\* beyond full
TrackPcts == {0 - 5, FullPct \div 2, FullPct, FullPct + 50}

\* UserProgressDetailView PATCH of completion_percentage on record pk by an
\* authenticated learner: 404 unless the record is the learner's own
UpdateProgress ==
    \E user_id \in DOMAIN users, r \in progress, completion_percentage \in TrackPcts :
        LET own == r.user_id = user_id
        IN  /\ progress' = IF own
                           THEN (progress \ {r}) \cup
                                {[r EXCEPT !.completion_percentage = completion_percentage]}
                           ELSE progress
            /\ last' = [op |-> "patch_progress",
                        args |-> <<user_id, r, completion_percentage>>,
                        result |-> IF own THEN 200 ELSE 404]
            /\ UNCHANGED <<contents, users, forum, connections, genVars>>

\* Content.objects.filter(id__in=content_ids), serialized: the queryset has
\* no order_by and Content has no Meta.ordering, so the rows come in the
\* order the database scans them
FetchedContents(recommendations, scan) ==
    LET content_ids == {recommendations[i].content_id : i \in DOMAIN recommendations}
    IN  SelectSeq(scan, LAMBDA c : c \in content_ids)

\* ContentRecommendationView.get calling get_personalized_recommendations
Recommend ==
    \E q \in RecommendCalls, scan \in ScanOrders :
        LET user_id == q[1]
            count == q[2]
            content_type == q[3]
            db_ok == q[4]
            r == GetPersonalizedRecommendations(user_id, count, content_type, scan, db_ok)
        IN  /\ last' = [op |-> "recommend", args |-> <<user_id, count, content_type>>,
                        result |-> r.value, raised |-> r.raised, failed |-> ~db_ok,
                        response |-> IF r.raised THEN <<>>
                                     ELSE FetchedContents(r.value, scan)]
            /\ UNCHANGED <<contents, users, forum, connections, progress, genVars>>

\* a call of get_appropriate_difficulty_level
GetDifficulty ==
    \E user_id \in UserArgs, db_ok \in BOOLEAN :
        LET r == GetAppropriateDifficultyLevel(user_id, db_ok)
        IN  last' = [op |-> "difficulty", args |-> <<user_id>>,
                     result |-> r.value, raised |-> r.raised, failed |-> ~db_ok]
        /\ UNCHANGED <<contents, users, forum, connections, progress, genVars>>

\* recommendations over the learners' progress
NextRec ==
    \/ ViewContent
    \/ TrackOn(RecPcts)
    \/ Recommend

SpecRec == InitDb /\ [][NextRec]_vars

\* the difficulty estimator over the learners' progress
NextDiff ==
    \/ ViewContent
    \/ TrackOn(DiffPcts)
    \/ GetDifficulty

SpecDiff == InitDiff /\ [][NextDiff]_vars

\* the learners viewing content and reporting their completion
NextTrack ==
    \/ ViewContent
    \/ TrackOn(TrackPcts)

SpecTrack == InitDb /\ [][NextTrack]_vars

\* all the requests that write UserProgress
NextProgress ==
    \/ ViewContent
    \/ TrackOn(TrackPcts)
    \/ UpdateProgress

SpecProgress == InitDb /\ [][NextProgress]_vars

----------------------------------------------------------------------------
(* Concurrent requests of one learner: the handlers that call              *)
(* UserProgress.objects.get_or_create, which is a SELECT followed, when    *)
(* nothing was found, by an INSERT                                         *)

\* the requests: handler, content_id, challenge_id, completion_percentage
Requests ==
    {<<"ContentDetailView.retrieve", 1, NULL, 0>>,
     <<"ChallengeDetailView.retrieve", NULL, 1, 0>>,
     <<"GenerateHintView.post", NULL, 1, 0>>}
    \cup {<<"TrackCompletionView.post", 1, NULL, p>> : p \in {FullPct \div 2, FullPct}}
    \cup {<<"TrackCompletionView.post", NULL, 1, FullPct>>}

\* a worker thread between two requests
IdleWorker == [pc |-> "idle", calls |-> 0, request |-> <<>>, nth |-> 0]

\* an empty UserProgress table, learner 1, every worker idle
InitRace ==
    /\ contents = [c \in ContentIds |->
                      ContentRow(Title0, Desc0, 1, "lesson", RelevanceCutoff, c)]
    /\ users = (1 :> [age_group_id |-> 1])
    /\ forum = <<>>
    /\ connections = <<>>
    /\ progress = {}
    /\ cache = <<>>
    /\ explanationsFile = None
    /\ hintsFile = None
    /\ settings = [ADAPTER_TYPE |-> "openai", API_KEY |-> TRUE]
    /\ environ = {}
    /\ currentAdapter = "None"
    /\ instances = NoInstances
    /\ threads = [t \in Threads |-> IdleWorker]
    /\ last = NoCall

raceFrame == <<contents, users, forum, connections, explanationsFile, hintsFile, settings,
               last>>
hintFrame == <<cache, environ, currentAdapter, instances>>

\* a worker takes a request of learner 1
StartRequest(t) ==
    \E request \in Requests :
        /\ threads[t].pc = "idle"
        /\ threads[t].calls < MaxCalls
        /\ threads' = [threads EXCEPT ![t] = [pc |-> "select", calls |-> @.calls + 1,
                                              request |-> request, nth |-> 0]]
        /\ UNCHANGED <<progress, raceFrame, hintFrame>>

\* get_or_create, self.get(**kwargs): the row when there is one,
\* MultipleObjectsReturned (the request fails) when there are several
SelectProgress(t) ==
    LET found == RowsOf(1, threads[t].request[2], threads[t].request[3])
    IN  /\ threads[t].pc = "select"
        /\ threads' = [threads EXCEPT
              ![t].pc = IF found = {} THEN "insert"
                        ELSE IF Cardinality(found) = 1 THEN "respond" ELSE "idle",
              ![t].nth = IF Cardinality(found) = 1 THEN (CHOOSE r \in found : TRUE).nth
                         ELSE 0]
        /\ UNCHANGED <<progress, raceFrame, hintFrame>>

\* get_or_create, self.create(**params): no constraint of UserProgress
\* rejects a second row of the learner on the item
InsertProgress(t) ==
    LET found == RowsOf(1, threads[t].request[2], threads[t].request[3])
        row == ProgressRow(Cardinality(found) + 1, 1, threads[t].request[2],
                           threads[t].request[3], 0)
    IN  /\ threads[t].pc = "insert"
        /\ progress' = progress \cup {row}
        /\ threads' = [threads EXCEPT ![t].pc = "respond", ![t].nth = row.nth]
        /\ UNCHANGED <<raceFrame, hintFrame>>

\* the rest of the handler: TrackCompletionView.post saves a higher
\* completion on the row it holds, GenerateHintView.post calls generate_hint
\* without an attempt and stores the text as a Hint row (a table that is
\* not part of the state), the retrieve handlers answer
Respond(t) ==
    \E ok \in BOOLEAN, raw \in {RawPlain} :
        LET request == threads[t].request
            held == {r \in RowsOf(1, request[2], request[3]) : r.nth = threads[t].nth}
            row == CHOOSE r \in held : TRUE
            o == GenerateHint(request[3], "", 1, FALSE, ok, raw)
        IN  /\ threads[t].pc = "respond"
            /\ progress' = IF /\ request[1] = "TrackCompletionView.post"
                              /\ request[4] > 0
                           THEN (progress \ {row}) \cup {Completed(row, request[4])}
                           ELSE progress
            /\ IF request[1] = "GenerateHintView.post"
               THEN /\ cache' = o.cache
                    /\ currentAdapter' = o.adapter
                    /\ environ' = o.environ
                    /\ instances' = Instantiated(o.adapter)
               ELSE UNCHANGED hintFrame
            /\ threads' = [threads EXCEPT ![t].pc = "idle"]
            /\ UNCHANGED raceFrame

NextRace ==
    \E t \in Threads :
        \/ StartRequest(t)
        \/ SelectProgress(t)
        \/ InsertProgress(t)
        \/ Respond(t)

SpecRace == InitRace /\ [][NextRace]_vars

----------------------------------------------------------------------------
(* Concurrent calls of add_curated_explanation and add_curated_hint        *)
(* (ai_engine/utils.py): each reads its file, changes what it read and     *)
(* writes the file                                                         *)

\* the call a thread makes: its function and its arguments; the threads add
\* different explanations of one concept, and hints of different levels
AddCall(t, kind) ==
    IF kind = "explanation"
    THEN <<"loops", "space", "Kids", <<"Curated", " ", ToString(t)>>>>
    ELSE <<1, t, <<"Curated", " ", ToString(t)>>>>

\* each file absent or created with an empty collection; every thread is to
\* make one call
InitAdds ==
    /\ contents = <<>>
    /\ users = <<>>
    /\ forum = <<>>
    /\ connections = <<>>
    /\ progress = {}
    /\ cache = <<>>
    /\ explanationsFile \in {None, Some(<<>>)}
    /\ hintsFile \in {None, Some(<<>>)}
    /\ settings = [ADAPTER_TYPE |-> "openai", API_KEY |-> TRUE]
    /\ environ = {}
    /\ currentAdapter = "None"
    /\ instances = NoInstances
    /\ threads = [t \in Threads |-> [pc |-> "idle", kind |-> "", content |-> None,
                                      result |-> FALSE]]
    /\ last = NoCall

addFrame == <<contents, users, forum, connections, progress, cache, settings, environ,
              currentAdapter,
              instances, last>>

\* a thread calls one of the two functions
StartAdd(t) ==
    \E kind \in {"explanation", "hint"} :
        /\ threads[t].pc = "idle"
        /\ threads' = [threads EXCEPT ![t].pc = "load", ![t].kind = kind]
        /\ UNCHANGED <<explanationsFile, hintsFile, addFrame>>

\* with open(file_path, 'r') as f: content = json.load(f); an absent file
\* raises, which the function reports as False
LoadCurated(t) ==
    LET file == IF threads[t].kind = "explanation" THEN explanationsFile ELSE hintsFile
    IN  /\ threads[t].pc = "load"
        /\ threads' = [threads EXCEPT ![t].pc = IF file = None THEN "done" ELSE "dump",
                                      ![t].content = file]
        /\ UNCHANGED <<explanationsFile, hintsFile, addFrame>>

\* a write that adds the entry to what the file holds when it is written
DumpedOverCurrent(kind, content, current, call) ==
    IF kind = "explanation"
    THEN AddCuratedExplanationTo(current, call[1], call[2], call[3], call[4]).file
    ELSE AddCuratedHintTo(current, call[1], call[2], call[3]).file

\* the file after json.dump(content, f): content is what the thread loaded,
\* with its entry added
Dumped(kind, content, current, call) ==
    IF kind = "explanation"
    THEN AddCuratedExplanationTo(content, call[1], call[2], call[3], call[4]).file
    ELSE AddCuratedHintTo(content, call[1], call[2], call[3]).file

\* with open(file_path, 'w') as f: json.dump(content, f); return True
DumpCurated(t) ==
    LET kind == threads[t].kind
    IN  /\ threads[t].pc = "dump"
        /\ explanationsFile' =
              IF kind = "explanation"
              THEN Dumped(kind, threads[t].content, explanationsFile, AddCall(t, kind))
              ELSE explanationsFile
        /\ hintsFile' =
              IF kind = "hint"
              THEN Dumped(kind, threads[t].content, hintsFile, AddCall(t, kind))
              ELSE hintsFile
        /\ threads' = [threads EXCEPT ![t].pc = "done", ![t].result = TRUE]
        /\ UNCHANGED addFrame

NextAdds ==
    \E t \in Threads :
        \/ StartAdd(t)
        \/ LoadCurated(t)
        \/ DumpCurated(t)

SpecAdds == InitAdds /\ [][NextAdds]_vars

----------------------------------------------------------------------------
(* api/community/views.py: the forum and the mentor connections            *)

\* core.models.Mentor rows, id -> [user]: learner 2 and the staff member 3
\* have a mentor profile
Mentors == (1 :> [user |-> 3]) @@ (2 :> [user |-> 2])

\* two learners and a staff member; an empty forum, no connection
InitCommunity ==
    /\ contents = <<>>
    /\ users = (1 :> [age_group_id |-> 1, is_staff |-> FALSE])
                @@ (2 :> [age_group_id |-> 1, is_staff |-> FALSE])
                @@ (3 :> [age_group_id |-> NULL, is_staff |-> TRUE])
    /\ progress = {}
    /\ forum = <<>>
    /\ connections = <<>>
    /\ cache = <<>>
    /\ explanationsFile = None
    /\ hintsFile = None
    /\ settings = [ADAPTER_TYPE |-> "openai", API_KEY |-> TRUE]
    /\ environ = {}
    /\ currentAdapter = "None"
    /\ instances = NoInstances
    /\ threads = IdleThreads
    /\ last = NoCall

\* a request: who sent it, to which view, with which method, for which
\* object, and the status of the response
Requested(user, view, method, pk, status) ==
    [op |-> view, method |-> method, args |-> <<user, pk>>, result |-> status]

\* ForumTopicListCreateView / ForumPostListCreateView / CommentListCreateView
\* POST by an authenticated user: perform_create saves created_by
CreateForum ==
    \E user \in DOMAIN users, kind \in {"ForumTopic", "ForumPost", "Comment"} :
        LET pk == Len(forum) + 1
        IN  /\ Len(forum) < MaxRows
            \* a deleted row keeps its place, marked, so that pk is its index
            /\ forum' = Append(forum, [kind |-> kind, created_by |-> user,
                                       content |-> 0, deleted |-> FALSE])
            /\ last' = Requested(user, kind, "POST", pk, 201)
            /\ UNCHANGED <<contents, users, progress, connections, genVars>>

\* get_queryset of the three detail views for PUT, PATCH and DELETE:
\* Q(created_by=self.request.user) | Q(created_by__is_staff=True)
Modifiable(user, row) ==
    row.created_by = user \/ users[row.created_by].is_staff

\* ForumTopicDetailView / ForumPostDetailView / CommentDetailView PUT, PATCH
\* or DELETE by an authenticated user: 404 when the row is not in the
\* queryset; an update writes the content sent, a delete removes the row
ModifyForum ==
    \E user \in DOMAIN users, pk \in DOMAIN forum, method \in {"PUT", "PATCH", "DELETE"} :
        LET row == forum[pk]
            found == ~row.deleted /\ Modifiable(user, row)
        IN  /\ forum' = IF ~found THEN forum
                        ELSE IF method = "DELETE" THEN [forum EXCEPT ![pk].deleted = TRUE]
                        ELSE [forum EXCEPT ![pk].content = 1 - @]
            /\ last' = Requested(user, row.kind, method, pk,
                                  IF ~found THEN 404
                                  ELSE IF method = "DELETE" THEN 204 ELSE 200)
            /\ UNCHANGED <<contents, users, progress, connections, genVars>>

NextForum ==
    \/ CreateForum
    \/ ModifyForum

SpecForum == InitCommunity /\ [][NextForum]_vars

\* MentorConnection.STATUS_CHOICES
Statuses == {"pending", "accepted", "rejected", "completed"}

\* get_queryset of both connection views: Q(mentee=user) | Q(mentor__user=user)
Participant(user, connection) ==
    connection.mentee = user \/ Mentors[connection.mentor].user = user

\* MentorConnectionListView POST by an authenticated user, whatever mentee
\* and status the body names: perform_create saves mentee and status
RequestConnection ==
    \E user \in DOMAIN users, mentor \in DOMAIN Mentors, status \in Statuses :
        /\ Len(connections) < MaxRows
        /\ connections' = Append(connections, [mentor |-> mentor, mentee |-> user,
                                               status |-> "pending"])
        /\ last' = Requested(user, "MentorConnectionListView", "POST",
                              Len(connections) + 1, 201)
        /\ UNCHANGED <<contents, users, progress, forum, genVars>>

\* MentorConnectionDetailView GET
RetrieveConnection ==
    \E user \in DOMAIN users, pk \in DOMAIN connections :
        /\ last' = Requested(user, "MentorConnectionDetailView", "GET", pk,
                              IF Participant(user, connections[pk]) THEN 200 ELSE 404)
        /\ UNCHANGED <<contents, users, progress, forum, connections, genVars>>

\* an update view without the check of the status
DecisionForbiddenNever(user, connection, status) == FALSE

\* request.data.get('status') in ['accepted', 'rejected'] and
\* connection.mentor.user != request.user
DecisionForbidden(user, connection, status) ==
    status \in {"accepted", "rejected"} /\ Mentors[connection.mentor].user # user

\* MentorConnectionDetailView PUT/PATCH with a status, a mentor, or both
\* (PyNone: the field is not sent; mentee is read-only)
UpdateConnection ==
    \E user \in DOMAIN users, pk \in DOMAIN connections,
       status \in Statuses \cup {PyNone}, mentor \in DOMAIN Mentors \cup {NULL} :
        LET connection == connections[pk]
            code == IF ~Participant(user, connection) THEN 404
                    ELSE IF DecisionForbidden(user, connection, status) THEN 403
                    ELSE 200
        IN  /\ connections' =
                  IF code # 200 THEN connections
                  ELSE [connections EXCEPT
                          ![pk].status = IF status = PyNone THEN @ ELSE status,
                          ![pk].mentor = IF mentor = NULL THEN @ ELSE mentor]
            /\ last' = Requested(user, "MentorConnectionDetailView", "PATCH", pk, code)
            /\ UNCHANGED <<contents, users, progress, forum, genVars>>

NextMentors ==
    \/ RequestConnection
    \/ RetrieveConnection
    \/ UpdateConnection

SpecMentors == InitCommunity /\ [][NextMentors]_vars

----------------------------------------------------------------------------
(* Claims about the adaptation engine, the curated store and the cache     *)

IsAdaptCall(l) == l.op \in {"adapt", "adjust"} /\ l.args[1] \in DOMAIN contents
\* the adapted / adjusted flag of a result
WasAdapted(l) == IF l.op = "adjust" THEN l.result.adjusted ELSE l.result.adapted

\* C1: a call of adapt_content_difficulty or adjust_content_difficulty whose
\* target equals the content's current difficulty_base returns adapted=false
\* with the content's current title and description and does not call the
\* generation backend, whatever the cache holds.
C1_EqualTargetReturnsCurrent ==
    (IsAdaptCall(last) /\ contents[last.args[1]].difficulty_base = last.args[2]) =>
        /\ last.calls = 0
        /\ WasAdapted(last) = FALSE
        /\ "title" \in DOMAIN last.result
        /\ last.result.title = contents[last.args[1]].title
        /\ last.result.description = contents[last.args[1]].description

\* C2: when the request of the generation backend fails during an adapt for
\* a target other than difficulty_base, the result has adapted=false, the
\* original title and description, and an error field.
C2_BackendFailureContained ==
    (IsAdaptCall(last) /\ last.failed) =>
        /\ WasAdapted(last) = FALSE
        /\ "error" \in DOMAIN last.result
        /\ \/ /\ "title" \in DOMAIN last.result
              /\ last.result.title = contents[last.args[1]].title
              /\ last.result.description = contents[last.args[1]].description
           \/ /\ "original_title" \in DOMAIN last.result
              /\ last.result.original_title = contents[last.args[1]].title

\* the curated explanations filed under this key (the concept in any case);
\* with wild, an age_group of None stands for every age group
CuratedFor(concept, theme, age_group, wild) ==
    IF explanationsFile = None THEN {}
    ELSE {explanationsFile[1][i].explanation : i \in
            {j \in 1..Len(explanationsFile[1]) :
                /\ Lower(explanationsFile[1][j].concept) = Lower(concept)
                /\ explanationsFile[1][j].theme = theme
                /\ \/ explanationsFile[1][j].age_group = age_group
                   \/ wild /\ age_group = PyNone}}

\* C3: when generate_themed_explanation is called for a (concept, theme,
\* age_group) that has a curated explanation in the store, it returns a
\* curated text of that key and does not call the generation backend.
C3_CuratedTakesPrecedence ==
    (last.op = "explain"
        /\ CuratedFor(last.args[1], last.args[2], last.args[3], FALSE) # {}) =>
        /\ last.result \in CuratedFor(last.args[1], last.args[2], last.args[3], TRUE)
        /\ last.calls = 0

\* C4: of two consecutive calls of generate_themed_explanation, of
\* generate_hint without user_attempt, or of adapt_content_difficulty with
\* the same arguments and no expiry in between, the second returns what the
\* first returned and does not call the generation backend.
C4_CacheIdempotence ==
    [][(/\ last.op \in {"explain", "hint", "adapt"}
        /\ last'.op = last.op
        /\ last'.args = last.args
        /\ last'.tick # last.tick)
       => (last'.result = last.result /\ last'.calls = 0)]_vars

\* an adapt call that missed the cache and got the JSON object from the backend
GotJson(l) ==
    /\ l.op = "adapt"
    /\ l.path = "generated"
    /\ ~l.failed
    /\ l.text = RawJson

\* C5: an adapt for a target other than difficulty_base that finds no cache
\* entry and receives {"title":"X","description":"Y"} returns title X,
\* description Y, both difficulties and adapted=true, and the next identical
\* call returns the same payload without calling the backend.
C5_JsonAdaptation ==
    [][/\ GotJson(last') =>
            last'.result = [title |-> <<"X">>, description |-> <<"Y">>,
                            original_difficulty |-> contents[last'.args[1]].difficulty_base,
                            target_difficulty |-> last'.args[2], adapted |-> TRUE]
       /\ (GotJson(last) /\ last'.op = "adapt" /\ last'.args = last.args
              /\ last'.tick # last.tick)
            => (last'.result = last.result /\ last'.calls = 0)]_vars

----------------------------------------------------------------------------
(* Claims about the recommendations and the difficulty estimator           *)

\* the content ids of a returned list, in rank order
Ranked(l) == [i \in 1..Len(l.result) |-> l.result[i].content_id]
\* the learner has a progress record on the item, at pct or above
HasRecord(user_id, c, pct) ==
    \E r \in progress :
        r.user_id = user_id /\ r.content_id = c /\ r.completion_percentage >= pct
\* the content type asked for, if one was
TypeAsked(l, c) ==
    l.args[3] \in {PyNone, ""} \/ contents[c].content_type = l.args[3]
\* the items of the learner's age group and of the type asked for on which
\* the learner has no record at 80 or above
Candidates(l) ==
    {c \in DOMAIN contents :
        /\ l.args[1] \in DOMAIN users
        /\ users[l.args[1]].age_group_id # NULL
        /\ contents[c].age_group_id = users[l.args[1]].age_group_id
        /\ TypeAsked(l, c)
        /\ ~HasRecord(l.args[1], c, RecCompletedPct)}

\* C6: every item get_personalized_recommendations returns has the age group
\* of the user; a user without an age group gets no items.
C6_SameAgeGroup ==
    last.op = "recommend" =>
        \A i \in 1..Len(last.result) :
            /\ last.args[1] \in DOMAIN users
            /\ users[last.args[1]].age_group_id # NULL
            /\ contents[Ranked(last)[i]].age_group_id = users[last.args[1]].age_group_id

\* items were returned while an item of another age group, of the type asked
\* for and not completed by the learner, was in the catalog
C6_Witness ==
    /\ last.op = "recommend"
    /\ Len(last.result) >= 1
    /\ \E c \in DOMAIN contents :
          /\ contents[c].age_group_id # users[last.args[1]].age_group_id
          /\ TypeAsked(last, c)
          /\ ~HasRecord(last.args[1], c, 0)

\* item a may be ranked before item b for the learner
RankedBefore(user_id, a, b) ==
    LET ip(c) == IF HasRecord(user_id, c, 0) THEN 10 ELSE 0
        rel(c) == IF contents[c].difficulty_base <= 3 THEN 5 ELSE 1
        d(c) == contents[c].difficulty_base
        t(c) == contents[c].created_at
    IN  \/ ip(a) > ip(b)
        \/ ip(a) = ip(b) /\ rel(a) > rel(b)
        \/ ip(a) = ip(b) /\ rel(a) = rel(b) /\ d(a) < d(b)
        \/ ip(a) = ip(b) /\ rel(a) = rel(b) /\ d(a) = d(b) /\ t(a) >= t(b)

\* C7: the returned list is sorted by in_progress descending, relevance_score
\* descending, difficulty_base ascending, creation time descending, where
\* in_progress is 10 for an item the user has a progress record on and 0
\* otherwise; no never-seen item is ranked before an in-progress item.
C7_SortedByRank ==
    last.op = "recommend" =>
        \A i, j \in 1..Len(last.result) :
            i < j =>
                /\ RankedBefore(last.args[1], Ranked(last)[i], Ranked(last)[j])
                /\ ~(/\ ~HasRecord(last.args[1], Ranked(last)[i], 0)
                     /\ HasRecord(last.args[1], Ranked(last)[j], 0))

\* an in-progress item above the cutoff of the relevance score was ranked
\* first, before a never-seen item at or below it
C7_Witness ==
    /\ last.op = "recommend"
    /\ Len(last.result) >= 2
    /\ HasRecord(last.args[1], Ranked(last)[1], 0)
    /\ contents[Ranked(last)[1]].difficulty_base > RelevanceCutoff
    /\ ~HasRecord(last.args[1], Ranked(last)[2], 0)
    /\ contents[Ranked(last)[2]].difficulty_base <= RelevanceCutoff

\* C8: get_personalized_recommendations returns no item on which the user
\* has a progress record at 80 or above, and returns exactly min(count, N)
\* items, N being the number of items of the user's age group (and of the
\* content type, if given) that this rule does not exclude, whatever the
\* user's progress records are.
C8_ExactlyMinCountOfCandidates ==
    (/\ last.op = "recommend"
     /\ ~last.failed
     /\ last.args[1] \in DOMAIN users
     /\ last.args[2] >= 0) =>
        /\ \A i \in 1..Len(last.result) :
              ~HasRecord(last.args[1], Ranked(last)[i], RecCompletedPct)
        /\ Len(last.result) = Min(last.args[2], Cardinality(Candidates(last)))

\* C9: get_personalized_recommendations never raises; for an unknown user, a
\* user without an age group, no candidates or a failing lookup it returns
\* the empty list.
C9_NeverRaises ==
    last.op = "recommend" =>
        /\ ~last.raised
        /\ (\/ last.failed
            \/ last.args[1] \notin DOMAIN users
            \/ users[last.args[1]].age_group_id = NULL
            \/ Candidates(last) = {}) => last.result = <<>>

\* a lookup failed during a call for a learner who had candidates
C9_Witness ==
    /\ last.op = "recommend"
    /\ last.failed
    /\ last.args[2] > 0
    /\ Candidates(last) # {}
    /\ last.result = <<>>

\* C10: for a user whose progress records all have a completion percentage
\* below 75, or who has none, get_appropriate_difficulty_level returns 1.
C10_BelowThresholdStartsAtOne ==
    (/\ last.op = "difficulty"
     /\ \A r \in progress :
           r.user_id = last.args[1] => r.completion_percentage < 75) =>
        last.result = 1

\* the estimator answered 1 for a learner whose one record is just below the
\* threshold, on content harder than level 1
C10_Witness ==
    /\ last.op = "difficulty"
    /\ ~last.failed
    /\ last.result = 1
    /\ \E r \in progress :
          /\ r.user_id = last.args[1]
          /\ r.completion_percentage = CompletedPct - 1
          /\ r.content_id # NULL
          /\ contents[r.content_id].difficulty_base > 1
    /\ \A r \in progress :
          r.user_id = last.args[1] => r.completion_percentage < CompletedPct

\* the learner's records at 75 or above, and those of them on content
CompletedOf(user_id) ==
    {r \in progress : r.user_id = user_id /\ r.completion_percentage >= 75}
CompletedContentOf(user_id) == {r \in CompletedOf(user_id) : r.content_id # NULL}
\* k is an integer nearest to total / n
Nearest(k, total, n) == 2 * (n * k - total) <= n /\ 2 * (total - n * k) <= n
Clamped(k) == IF k < 1 THEN 1 ELSE IF k > 5 THEN 5 ELSE k

C12_LevelInRange ==
    last.op = "difficulty" =>
        /\ ~last.raised
        /\ last.result \in 1..5
        /\ last.failed => last.result = 1

\* the estimator answered 5 for a learner whose completed content lies
\* above level 5
C12_Witness ==
    /\ last.op = "difficulty"
    /\ ~last.failed
    /\ last.result = 5
    /\ \E r \in CompletedContentOf(last.args[1]) :
          contents[r.content_id].difficulty_base > 5

----------------------------------------------------------------------------
(* Claims about the generation backend, the chat service and the stores    *)

\* C13: across the interleavings of concurrent get_current_adapter calls the
\* adapter is constructed once, the configuration is read once and every
\* caller is returned the same object.
C13_ConstructedOnce ==
    /\ instances.built <= 1
    /\ \A t, u \in Threads : t # u => ~(threads[t].reads > 0 /\ threads[u].reads > 0)
    /\ \A t, u \in Threads : \A a \in threads[t].got, b \in threads[u].got : a = b

\* C14: generate_chat_response does not raise: when the generation request
\* fails or the backend cannot be obtained or constructed, it returns a
\* response dictionary carrying a static fallback message.
C14_ChatNeverRaises ==
    last.op = "chat" =>
        /\ ~last.raised
        /\ "message" \in DOMAIN last.result
        /\ last.failed => last.result.message \in {ChatFallback, Placeholder}

\* all categories of the list, and nothing else, have the score
AllScored(result, categories, score) ==
    /\ result.kind = "scores"
    /\ DOMAIN result.scores = {categories[i] : i \in 1..Len(categories)}
    /\ \A c \in DOMAIN result.scores : result.scores[c] = score

\* C15: on every provider adapter generate_text returns a string and
\* classify_content returns a mapping without raising, whatever the request
\* does and whatever the categories list, the empty one included; when the
\* request fails or the answer holds no JSON object, every category of the
\* list gets the same score, 1/n or 0.
C15_ProvidersDegrade ==
    /\ last.op = "generate_text" =>
          /\ ~last.raised
          /\ last.result \in Seq(STRING)
          /\ last.failed => last.result = Placeholder
    /\ last.op = "classify_content" =>
          /\ ~last.raised
          /\ last.result.kind \in {"scores", "parsed"}
          /\ last.failed =>
                \/ AllScored(last.result, last.args[2], <<0, 1>>)
                \/ AllScored(last.result, last.args[2], <<1, Len(last.args[2])>>)

\* a classification whose request failed gave two categories 1/2 each
C15_Witness ==
    /\ last.op = "classify_content"
    /\ last.failed
    /\ Len(last.args[2]) = 2
    /\ last.args[2][1] # last.args[2][2]
    /\ AllScored(last.result, last.args[2], <<1, 2>>)

\* the last call is generate_hint with a user attempt
IsPersonalHint(call) == call.op = "hint" /\ call.args[2] # ""

\* C16: a generate_hint call with a non-empty user_attempt returns the text
\* generated for it, or the static hint when nothing could be generated,
\* never an entry of the cache or of the curated hints, and leaves the cache
\* as it was, on the personalized path and on the generic path it falls
\* through to.
C16_AttemptBypassesCache ==
    /\ [](IsPersonalHint(last) =>
             /\ last.path \in {"personalized", "generic", "except"}
             /\ last.result = IF last.calls > 0 THEN last.text ELSE HintFallback)
    /\ [][(last' # last /\ IsPersonalHint(last')) => cache' = cache]_vars

\* a call with an attempt fell through to the generic path while the cache
\* and the curated hints both held another hint for its challenge and level
C16_Witness ==
    /\ IsPersonalHint(last)
    /\ last.path = "generic"
    /\ HintKey(last.args[1], last.args[3]) \in DOMAIN cache
    /\ cache[HintKey(last.args[1], last.args[3])] # last.result
    /\ GetCuratedHint(hintsFile, last.args[1], last.args[3]) # None

\* the step is a call of the add function op
IsAdd(op) == last' # last /\ last'.op = op

\* C17: while the files of the curated store are absent the lookups find
\* nothing, and the generators go on to generate; an add_curated_explanation
\* or add_curated_hint called while its file is absent returns True and its
\* entry is found by the lookup afterwards.
C17_AbsentStoreInitialized ==
    /\ [](/\ (explanationsFile = None /\ last.op = "explain") => last.path # "curated"
          /\ (hintsFile = None /\ last.op = "hint") => last.path # "curated")
    /\ [][(hintsFile = None /\ IsAdd("add_hint")) =>
              /\ last'.result
              /\ GetCuratedHint(hintsFile', last'.args[1], last'.args[2])
                    = Some(last'.args[3])]_vars
    /\ [][(explanationsFile = None /\ IsAdd("add_explanation")) =>
              /\ last'.result
              /\ GetCuratedExplanation(explanationsFile', last'.args[1], last'.args[2],
                                        last'.args[3]) = Some(last'.args[4])]_vars

\* C18: neither add function raises; after add_curated_hint(c, l, t) returned
\* True the lookup of (c, l) gives t, and after add_curated_explanation(
\* concept, theme, age_group, e) returned True the lookup of (concept, theme,
\* age_group) gives e, whatever the store held before.
C18_AddLookupRoundTrip ==
    /\ (last.op = "add_hint" /\ last.result) =>
          GetCuratedHint(hintsFile, last.args[1], last.args[2]) = Some(last.args[3])
    /\ (last.op = "add_explanation" /\ last.result) =>
          GetCuratedExplanation(explanationsFile, last.args[1], last.args[2],
                                last.args[3]) = Some(last.args[4])

\* the cache key of a call of one of the cached generators
KeyOf(call) ==
    IF call.op = "explain" THEN ThemedKey(call.args[1], call.args[2], call.args[3])
    ELSE AdaptedKey(call.args[1], call.args[2])

\* C19: a call is never answered from the cache with the value that the call
\* before it stored under the same key unless the two calls agree on every
\* parameter that affects the result: concept, theme, age_group and
\* base_explanation for generate_themed_explanation, content id and target
\* difficulty for adapt_content_difficulty.
C19_KeyCoversParameters ==
    [][\A op \in {"explain", "adapt"} :
          (/\ last.op = op /\ last'.op = op /\ last' # last
           /\ last.path \in {"generated", "curated", "equal"}
           /\ last'.path = "cache"
           /\ KeyOf(last') = KeyOf(last))
          => last'.args = last.args]_vars

\* the call failed: its content does not exist, the adapter could not be
\* constructed, or the request of generate_text failed
AdaptFailed(call) ==
    /\ call.op = "adapt"
    /\ \/ call.args[1] \notin DOMAIN contents
       \/ call.path = "except"
       \/ call.failed

\* C20: adapt_content_difficulty never raises; when the content does not
\* exist, or the backend cannot be obtained or its request fails, the result
\* has adapted false and an error field, with the original title when the
\* content exists, and the cache is left as it was.
C20_AdaptFailureContained ==
    /\ [](AdaptFailed(last) =>
             /\ ~last.result.adapted
             /\ "error" \in DOMAIN last.result
             /\ last.args[1] \in DOMAIN contents =>
                   last.result.original_title = contents[last.args[1]].title)
    /\ [][(last' # last /\ AdaptFailed(last')) => cache' = cache]_vars

\* the text has no Title or Description label and is no JSON object with a
\* title or a description key
Unstructured(text) ==
    /\ ReSearchLabel("Title", text, FALSE) = None
    /\ ReSearchLabel("Description", text, TRUE) = None
    /\ JsonLoads(text).kind = "object" =>
          /\ DictGet(JsonLoads(text).members, "title", None) = None
          /\ DictGet(JsonLoads(text).members, "description", None) = None

\* C24: when the text that the backend returned for an adaptation has
\* neither a labeled Title or Description nor a JSON object with a title or
\* description key, the result keeps the content's title, has the whole
\* text as description and reports adapted=true.
C24_RawTextAsDescription ==
    (IsAdaptCall(last) /\ last.calls > 0 /\ Unstructured(last.text)) =>
        /\ WasAdapted(last)
        /\ last.result.title = contents[last.args[1]].title
        /\ last.result.description = last.text

\* C26: with ADAPTER_TYPE "mock", unknown or not configured, the adapter
\* obtained by get_current_adapter is a MockAdapter, obtaining it does not
\* raise, and its generate_text returns a string.
C26_MockBackendUsable ==
    (last.op = "chat" /\ settings.ADAPTER_TYPE \notin Providers) =>
        /\ ~last.raised
        /\ currentAdapter = "MockAdapter"
        /\ last.result.message \in Seq(STRING)

\* the store holds the entry of the call of thread t
Stored(t, kind) ==
    IF kind = "explanation"
    THEN \E i \in 1..Len(explanationsFile[1]) :
            explanationsFile[1][i].explanation = AddCall(t, kind)[4]
    ELSE GetCuratedHint(hintsFile, 1, t) = Some(AddCall(t, kind)[3])

\* C25: an add writes the whole collection as it loaded it, with its entry
\* added, whatever the file holds by then: the entries that other calls
\* stored since it loaded the file are no longer in the store, while those
\* calls have returned True.
C25_WritesNotIsolated ==
    [][\A t \in Threads : (threads[t].pc = "dump" /\ threads'[t].pc = "done") =>
          /\ threads'[t].result
          /\ \A u \in Threads \ {t} :
                (/\ threads[u].kind = threads[t].kind
                 /\ threads[u].pc = "done" /\ threads[u].result
                 /\ threads[t].content = Some(<<>>))
                => ~Stored(u, threads[t].kind)']_vars

\* two concurrent add_curated_explanation calls have both returned True and
\* the explanation of one of them is not in the store
C25_Witness ==
    \E t, u \in Threads :
        /\ t # u
        /\ threads[t].kind = "explanation" /\ threads[u].kind = "explanation"
        /\ threads[t].pc = "done" /\ threads[u].pc = "done"
        /\ threads[t].result /\ threads[u].result
        /\ Stored(t, "explanation")
        /\ ~Stored(u, "explanation")

----------------------------------------------------------------------------
(* Claims about the community                                              *)

\* C27: a forum topic, post or comment is changed or deleted only by a
\* request of the user who created it or of a staff user; the modifying
\* request of any other user is answered 404 and changes nothing.
C27_OnlyCreatorOrStaffModifies ==
    [][\A pk \in DOMAIN forum :
          LET allowed == \/ last'.args[1] = forum[pk].created_by
                         \/ users[last'.args[1]].is_staff
          IN  /\ forum'[pk] # forum[pk] => allowed
              /\ (/\ last'.method \in {"PUT", "PATCH", "DELETE"}
                  /\ last'.args[2] = pk
                  /\ last' # last
                  /\ ~allowed)
                 => (last'.result = 404 /\ forum' = forum)]_vars

\* C29: after a call of generate_themed_explanation, of generate_hint without
\* user_attempt or of adapt_content_difficulty whose backend request failed,
\* the next call with the same parameters calls the backend again: the
\* placeholder of the failed request is not what the cache answers with.
C29_PlaceholderNotCached ==
    [][(/\ last.op \in {"explain", "hint", "adapt"}
        /\ last.failed
        /\ last'.op = last.op
        /\ last'.args = last.args
        /\ last'.tick # last.tick)
       => (last'.calls > 0 /\ last'.path # "cache")]_vars

\* C30: the response of ContentRecommendationView.get lists the items that
\* get_personalized_recommendations returned, in the order it returned them.
C30_ResponseKeepsRank ==
    (last.op = "recommend" /\ ~last.raised) => last.response = Ranked(last)

\* C28: a connection starts as 'pending' with the requesting user as its
\* mentee; its status becomes 'accepted' or 'rejected' only by an update
\* request of the user of its mentor; a retrieve or an update succeeds only
\* for its mentee and the user of its mentor.
C28_MentorDecides ==
    [][/\ \A pk \in DOMAIN connections' \ DOMAIN connections :
             /\ connections'[pk].status = "pending"
             /\ connections'[pk].mentee = last'.args[1]
       /\ \A pk \in DOMAIN connections :
             /\ (/\ connections'[pk].status \in {"accepted", "rejected"}
                 /\ connections'[pk].status # connections[pk].status)
                => /\ last'.op = "MentorConnectionDetailView"
                   /\ last'.method = "PATCH"
                   /\ last'.args = <<Mentors[connections[pk].mentor].user, pk>>
             /\ (/\ last'.op = "MentorConnectionDetailView"
                 /\ last'.args[2] = pk
                 /\ last'.result = 200
                 /\ last' # last)
                => Participant(last'.args[1], connections[pk])]_vars

\* the user of the mentor accepted a connection that a learner requested
C28_Witness ==
    /\ last.op = "MentorConnectionDetailView"
    /\ last.method = "PATCH"
    /\ last.result = 200
    /\ connections[last.args[2]].status = "accepted"
    /\ connections[last.args[2]].mentee # last.args[1]
    /\ Mentors[connections[last.args[2]].mentor].user = last.args[1]

----------------------------------------------------------------------------
(* Claims about the progress records                                       *)

\* C21: over every request that writes UserProgress (the retrieve of a
\* content, TrackCompletionView.post, UserProgressDetailView PUT/PATCH) each
\* record stays in the table and its completion_percentage does not go down.
C21_CompletionMonotonic ==
    [][\A r \in progress : \E q \in progress' :
          /\ <<q.user_id, q.content_id, q.challenge_id, q.nth>>
                = <<r.user_id, r.content_id, r.challenge_id, r.nth>>
          /\ q.completion_percentage >= r.completion_percentage]_vars

\* C23: after any TrackCompletionView.post requests every record has a
\* completion_percentage in 0..100 and points_earned >= 0, and completed_at
\* is set only on records whose completion reached 100.
C23_ProgressInRange ==
    \A r \in progress :
        /\ 0 <= r.completion_percentage /\ r.completion_percentage <= FullPct
        /\ r.points_earned >= 0
        /\ r.completed_at # NULL => r.completion_percentage >= FullPct

\* C22: whatever the interleaving of the concurrent requests of a learner
\* on a content item or on a challenge, the learner has at most one
\* UserProgress record on it.
C22_OneRecordPerPair ==
    \A r, q \in progress :
        (r.user_id = q.user_id /\ r.content_id = q.content_id
            /\ r.challenge_id = q.challenge_id) => r = q

====
